---- MODULE Spec2Model ----
(***************************************************************************)
(* Per-device connection/process co-supervisor of sendspin-bt-bridge.      *)
(*                                                                         *)
(* Spec, FairSpec: one device, its BluetoothManager (src/sendspin_client.py*)
(* 164-580), its SendspinClient (583-1085) and the dashboard commands of   *)
(* src/web_interface.py that reach them (1972-2049).  Every blocking       *)
(* external call (bluetoothctl, pactl, Popen) together with the plain      *)
(* assignments that follow it up to the next external call or await is one *)
(* step; coroutines and threads interleave between steps.                  *)
(*                                                                         *)
(* OutSpec: the player instances of one device and the consumers of their  *)
(* output (start_sendspin_process, monitor_output).                        *)
(* PoolSpec: the default executor shared by the jobs of all devices.       *)
(* TwoSpec: two devices side by side with the dashboard's client lookup.   *)
(* MainSpec: main() building the clients of the configured devices,        *)
(* running them and stopping them on a shutdown signal.                    *)
(* VolSpec: the volume of one device over dashboard commands, volume lines *)
(* of the player, connection events and restarts (src/web_interface.py     *)
(* 1883-1926, 107-149).                                                    *)
(* ConnSpec: the status fields written on connection events.               *)
(* LineSpec: the consumer's treatment of each output line.                 *)
(* MgmtSpec: the release/reclaim commands of one device, each carried out  *)
(* on a thread of its own (src/web_interface.py 2027-2049).                *)
(* FormatSpec: the audio_format of two devices and the module-level cache  *)
(* of full format strings.                                                 *)
(* Each specification moves its own variables and leaves the others at     *)
(* their initial values.                                                   *)
(***************************************************************************)
EXTENDS Integers, FiniteSets, Sequences, TLC

\* ---- bounds of the model ------------------------------------------------
MaxAttempt == 2      \* cap on the reconnect_attempt counter
MaxEvents == 1       \* outside events: link changes, player crashes, failing
                     \* host commands or launches, dashboard commands

MaxLaunches == 3     \* player instances launched for one device
MaxLines == 1        \* unread output lines buffered in a player's pipe

NumDevices == 5      \* devices of the bridge in the worker-pool model
PoolSize == 5        \* workers of the loop's default executor: Python's
                     \* min(32, cpu_count + 4) on a single-CPU host

MaxSignals == 2      \* shutdown signals delivered to the bridge
MaxTime == 3         \* readings of the clock, datetime.now()
MaxReanchors == 2    \* cap on status['reanchor_count']
MaxCommands == 2     \* release/reclaim commands sent to one device

\* ---- program constants --------------------------------------------------
ConnectChecks == 5   \* for i in range(5) in connect_device
CheckInterval == 10  \* BluetoothManager.check_interval
MonitorSleep == 5    \* asyncio.sleep(5) of the monitor loop
NumSinkNames == 4    \* len(sink_names) in configure_bluetooth_audio
base_listen_port == 8928     \* main(): base_listen_port
InitialVolume == 100         \* SendspinClient.__init__: status['volume']
FullVolume == 100            \* configure_bluetooth_audio: set-sink-volume 100%
NoVolume == -1               \* None: no volume saved, no snapshot read
SinkAttempts == 3            \* for attempt in range(3)
Callers == {"mon", "cba", "dash"}

VARIABLES
    \* the world outside the program
    link,                   \* the speaker really is connected to the host
    paired,                 \* BlueZ has the speaker paired
    events,                 \* outside events so far (see MaxEvents)
    \* BluetoothManager
    connected,              \* self.connected
    management_enabled,     \* self.management_enabled
    since_check,            \* time.time() - self.last_check, capped
    \* SendspinClient
    running,                \* self.running
    bt_management_enabled,  \* self.bt_management_enabled
    process,                \* self.process: none / alive / term / dead
    bluetooth_sink_name,    \* 0 = None, k = sink_names[k-1]
    status,                 \* self.status (the fields modelled)
    \* positions and locals of the tasks and threads
    run_pc,
    upd_pc, upd_bt,
    mon_pc, mon_connected, reconnect_attempt,
    cba_pc,
    dash_pc,
    cd,                     \* connect_device activation of each caller
    \* history
    h_stop_pending,         \* disconnect seen, live player not yet told to stop
    h_disc_stopped,         \* "stopped": the monitor stopped the player on a
                            \* disconnect; "restarted": it was launched again
    h_true_seen,            \* a query returned true since the monitor saw false
    h_mon_fault,            \* the command of the monitor's current poll failed
    h_loop_error,           \* loop whose body raised and has not completed a
                            \* pass since: "none" / "upd" / "mon"
    h_failed,               \* consecutive poll cycles whose connect failed
    h_crashed,              \* "crashed": the player exited by itself;
                            \* "restarted": the status loop launched it again
    \* the other models, one record each
    out,                    \* OutSpec: player instances of one device and the
                            \* consumers of their output
    pool,                   \* PoolSpec: the default executor and its jobs
    two,                    \* TwoSpec: two devices side by side
    fleet,                  \* MainSpec: main() building and stopping the clients
    vol,                    \* VolSpec: the volume of one device and its saved value
    conn,                   \* ConnSpec: status fields written on connection events
    rd,                     \* LineSpec: the consumer of a player's output lines
    mg,                     \* the release/reclaim commands of one device (MgmtSpec)
    af                      \* FormatSpec: audio_format of two devices and the format cache

worldVars == <<link, paired>>
envVars  == <<link, paired, events>>
btVars   == <<connected, management_enabled, since_check>>
procVars == <<process, bluetooth_sink_name>>
errVars  == <<h_mon_fault, h_loop_error, h_failed, h_crashed>>
histVars == <<h_stop_pending, h_disc_stopped, h_true_seen, h_mon_fault,
              h_loop_error, h_failed, h_crashed>>
devVars == <<link, paired, events, connected, management_enabled,
          since_check, running, bt_management_enabled, process,
          bluetooth_sink_name, status, run_pc, upd_pc, upd_bt, mon_pc,
          mon_connected, reconnect_attempt, cba_pc, dash_pc, cd,
          h_stop_pending, h_disc_stopped, h_true_seen, h_mon_fault,
          h_loop_error, h_failed, h_crashed>>
extVars == <<out, pool, two, fleet, vol, conn, rd, mg, af>>
vars == <<devVars, out, pool, two, fleet, vol, conn, rd, mg, af>>

Min(a, b) == IF a < b THEN a ELSE b

\* ---- BluetoothController: results of the host commands -------------------

\* _run_bluetoothctl, lines 258-274: the command succeeds, or it fails or
\* times out and (False, message) is returned
CommandOutcomes == IF events < MaxEvents THEN {TRUE, FALSE} ELSE {TRUE}

\* a query that trusts the output of a failed command
IsConnectedResult_output(success, connected_yes) == connected_yes

\* is_device_connected, lines 310-311: success and 'Connected: yes' in output
IsConnectedResult(success, connected_yes) == success /\ connected_yes

\* is_device_connected: success and 'Connected: yes' in output; a failed or
\* timed-out command yields False.
QueryResults == {IsConnectedResult(ok, link) : ok \in CommandOutcomes}

\* the query failed although the speaker is connected
QueryFault(r) == events' = (IF link /\ ~r THEN events + 1 ELSE events)

\* is_device_paired: success and 'Paired: yes' in output.
PairedResults ==
    IF paired THEN (IF events < MaxEvents THEN {TRUE, FALSE} ELSE {TRUE})
    ELSE {FALSE}

\* poll() is None
PollIsNone(p) == p \in {"alive", "term"}

\* process.terminate(): a request; the process exits later.
Terminate(p) == IF p = "alive" THEN "term" ELSE p

\* ---- AudioSinkRouter ------------------------------------------------------

\* sets of sink names pactl may know when configure_bluetooth_audio probes
SinkCases == IF link THEN {{}, {3, 4}} ELSE {{}}

RECURSIVE FirstSink(_, _)
FirstSink(avail, k) ==
    IF k > NumSinkNames THEN 0
    ELSE IF k \in avail THEN k ELSE FirstSink(avail, k + 1)

\* configure_bluetooth_audio: the first candidate whose query succeeds
ProbeSinks(avail) == FirstSink(avail, 1)

\* client.bluetooth_sink_name after configure_bluetooth_audio
ConfiguredSink(old, avail) ==
    IF ProbeSinks(avail) # 0 THEN ProbeSinks(avail) ELSE old

IdleCD == [pc |-> "idle", i |-> 0, cmds |-> {}, q0 |-> FALSE,
           need_pair |-> FALSE, pair_ok |-> FALSE, ret |-> FALSE]

StartCD == [IdleCD EXCEPT !.pc = "q0"]

InitStatus == [bluetooth_connected |-> FALSE, reconnecting |-> FALSE,
               reconnect_attempt |-> 0]

DevInit ==
    /\ paired \in BOOLEAN
    /\ link \in (IF paired THEN BOOLEAN ELSE {FALSE})
    /\ events = 0
    /\ connected = FALSE
    /\ management_enabled \in BOOLEAN
    /\ bt_management_enabled = management_enabled
    /\ since_check = CheckInterval
    /\ running = FALSE
    /\ process = "none"
    /\ bluetooth_sink_name = 0
    /\ status = InitStatus
    /\ run_pc = "init"
    /\ upd_pc = "sleep"
    /\ upd_bt = FALSE
    /\ mon_pc = "top"
    /\ mon_connected = FALSE
    /\ reconnect_attempt = 0
    /\ cba_pc = "wait"
    /\ dash_pc = "idle"
    /\ cd = [c \in Callers |-> IdleCD]
    /\ h_stop_pending = FALSE
    /\ h_disc_stopped = "no"
    /\ h_true_seen = FALSE
    /\ h_mon_fault = FALSE
    /\ h_loop_error = "none"
    /\ h_failed = 0
    /\ h_crashed = "no"

\* SendspinClient.__init__ (lines 604-631) for the output model
OutInit ==
    out = [launches |-> 0,          \* player instances launched so far
           process |-> 0,           \* self.process: its instance, 0 = None
           live |-> {},             \* instances that have not exited
           pipe |-> [i \in 1..MaxLaunches |-> <<>>],
                                    \* unread lines of each instance's stdout
           monitor_task |-> "none", \* self._monitor_task: none / pending /
                                    \* reading / ended
           readers |-> {},          \* instances whose _read_until_eof runs
                                    \* on a worker
           connected |-> FALSE,     \* bt_manager.connected
           bluetooth_sink_name |-> 0,   \* 0 = None, k = sink_names[k-1]
           pulse_sink |-> 0,        \* env['PULSE_SINK'] of the last launch
           playing |-> FALSE,       \* self.status['playing']
           line_of |-> 0,           \* instance whose line last wrote the
                                    \* status since the last launch, 0 = none
           killed |-> {}]           \* the instance the last start found alive and
                                    \* ended, if any

\* no job has been handed to the executor
PoolInit ==
    pool = [cons |-> [d \in 1..NumDevices |-> "none"],
                                    \* per device, its _read_until_eof job:
                                    \* none / queued / running
            qry |-> [d \in 1..NumDevices |-> "idle"],
                                    \* per device, its is_device_connected
                                    \* job: idle / queued / running
            queue |-> <<>>]         \* jobs waiting for a worker, oldest first

\* the two devices of the two-device model: _clients[0] and _clients[1]
Clients == {1, 2}

IdleForce == [pc |-> "idle", name |-> 0, client |-> 0]

\* main(): one SendspinClient and one BluetoothManager per device, each with
\* its own state (lines 164-180 and 604-631); every speaker is connected
TwoInit ==
    two = [links |-> [d \in Clients |-> TRUE],
                                    \* the speaker really is connected
           connected |-> [d \in Clients |-> FALSE],
                                    \* bt_manager.connected
           attempts |-> [d \in Clients |-> 0],
                                    \* reconnect_attempt of the monitor
           statuses |-> [d \in Clients |->
                           [reconnecting |-> FALSE, reconnect_attempt |-> 0]],
           processes |-> [d \in Clients |-> "none"],
                                    \* self.process: none / alive / dead
           mon_pcs |-> [d \in Clients |-> "init"],
                                    \* position of the client's monitor
           mon_seen |-> [d \in Clients |-> FALSE],
                                    \* result of the monitor's last query
           force |-> IdleForce]     \* the dashboard's forced reconnect:
                                    \* position, requested player_name,
                                    \* client it works on

\* the record of a model that is not the one being run rests at 0
OutRest == out = 0

PoolRest == pool = 0

TwoRest == two = 0

FleetRest == fleet = 0

VolRest == vol = 0

ConnRest == conn = 0

RdRest == rd = 0

MgRest == mg = 0

AfRest == af = 0

\* the supervisor at the start state of a managed, paired, connected device
DevRest == DevInit /\ paired /\ link /\ management_enabled

Init == DevInit /\ OutRest /\ PoolRest /\ TwoRest /\ FleetRest /\ VolRest /\ ConnRest /\ RdRest /\ MgRest /\ AfRest

\* ---- history bookkeeping -------------------------------------------------

\* a query returned r; by_monitor: it is the monitor's poll (line 543)
TrueSeenAfter(r, by_monitor) ==
    IF r THEN TRUE ELSE IF by_monitor THEN FALSE ELSE h_true_seen

\* ---- SendspinClient.start_sendspin_process -------------------------------

\* lines 792-802: terminate, wait(3), else kill: the old instance is gone
KillExisting(p) == IF PollIsNone(p) THEN "dead" ELSE p

\* line 789: configure the sink first when connected and no sink is known
StartConfigures(bt_connected, sink) == bt_connected /\ sink = 0

\* Popen starts the player, or raises (line 867)
LaunchResults == IF events < MaxEvents THEN {TRUE, FALSE} ELSE {TRUE}

\* the whole of start_sendspin_process
StartSendspin ==
    \E avail \in SinkCases, popen_ok \in LaunchResults :
        /\ bluetooth_sink_name' =
              IF StartConfigures(connected, bluetooth_sink_name)
              THEN ConfiguredSink(bluetooth_sink_name, avail)
              ELSE bluetooth_sink_name
        /\ IF popen_ok
           THEN /\ process' = "alive"
                /\ h_disc_stopped' = (IF h_disc_stopped = "stopped"
                                      THEN "restarted" ELSE h_disc_stopped)
           ELSE /\ process' = KillExisting(process)
                /\ h_disc_stopped' = h_disc_stopped
        /\ events' = (IF popen_ok THEN events ELSE events + 1)
        /\ h_stop_pending' = FALSE

\* ---- SendspinClient.run ---------------------------------------------------

\* lines 995-1035: running = True, start the player unless released, then
\* create the status, start-up connect and monitor tasks
RunStart ==
    /\ run_pc = "init"
    /\ run_pc' = "running"
    /\ running' = TRUE
    /\ IF bt_management_enabled
       THEN StartSendspin
       ELSE UNCHANGED <<procVars, events, h_stop_pending, h_disc_stopped>>
    /\ UNCHANGED <<worldVars, btVars, bt_management_enabled, status, upd_pc,
                   upd_bt, mon_pc, mon_connected, reconnect_attempt, cba_pc,
                   dash_pc, cd, h_true_seen>>
    /\ UNCHANGED errVars
    /\ UNCHANGED extVars

\* ---- SendspinClient.update_status ----------------------------------------

\* line 664: bt_connected = await run_in_executor(is_device_connected)
UpdQuery ==
    /\ run_pc = "running" /\ running
    /\ upd_pc = "sleep"
    /\ \E r \in QueryResults :
          /\ connected' = r
          /\ QueryFault(r)
          /\ upd_bt' = r
          /\ h_true_seen' = TrueSeenAfter(r, FALSE)
    /\ upd_pc' = "queried"
    /\ UNCHANGED <<worldVars, management_enabled, since_check, running,
                   bt_management_enabled, procVars, status, run_pc, mon_pc,
                   mon_connected, reconnect_attempt, cba_pc, dash_pc,
                   cd, h_stop_pending, h_disc_stopped>>
    /\ h_crashed' = (IF h_crashed = "restarted" THEN "no" ELSE h_crashed)
    /\ UNCHANGED <<h_mon_fault, h_loop_error, h_failed>>
    /\ UNCHANGED extVars

\* a liveness poll that never restarts
UpdMayRestart_never(bt_connected) == FALSE

\* a liveness poll that restarts whatever the Bluetooth state
UpdMayRestart_always(bt_connected) == TRUE

\* line 679: restart a dead player only when Bluetooth is connected
UpdMayRestart(bt_connected) == bt_connected

\* lines 666-683 and the sleep of line 709
UpdHandle ==
    /\ upd_pc = "queried"
    /\ upd_pc' = "sleep"
    /\ status' = [status EXCEPT !.bluetooth_connected = upd_bt]
    /\ IF process # "none" /\ ~PollIsNone(process) /\ UpdMayRestart(connected)
       THEN StartSendspin
       ELSE UNCHANGED <<procVars, events, h_stop_pending, h_disc_stopped>>
    /\ UNCHANGED <<worldVars, btVars, running, bt_management_enabled, run_pc,
                   upd_bt, mon_pc, mon_connected, reconnect_attempt, cba_pc,
                   dash_pc, cd, h_true_seen>>
    /\ h_crashed' = (IF h_crashed = "crashed" /\ process' = "alive"
                     THEN "restarted" ELSE h_crashed)
    /\ h_loop_error' = (IF h_loop_error = "upd" THEN "none" ELSE h_loop_error)
    /\ UNCHANGED <<h_mon_fault, h_failed>>
    /\ UNCHANGED extVars

\* a status loop that ends when its body raises
UpdAfterError_exit == "exited"

\* lines 710-712: an exception in the body is logged, the loop sleeps 10 s
\* and goes on
UpdAfterError == "sleep"

\* lines 664-712: a call of the body raises (the executor, the MPRIS read)
UpdError ==
    /\ upd_pc = "queried"
    /\ events < MaxEvents
    /\ events' = events + 1
    /\ upd_pc' = UpdAfterError
    /\ h_loop_error' = "upd"
    /\ UNCHANGED <<worldVars, btVars, running, bt_management_enabled,
                   procVars, status, run_pc, upd_bt, mon_pc, mon_connected,
                   reconnect_attempt, cba_pc, dash_pc, cd, h_stop_pending,
                   h_disc_stopped, h_true_seen, h_mon_fault, h_failed, h_crashed>>
    /\ UNCHANGED extVars

\* ---- BluetoothManager.monitor_and_reconnect -------------------------------

\* line 533: a released device is not polled
MonitorPolls(enabled) == enabled

\* lines 533-540 and 577: skip when released, poll when the interval has
\* elapsed, otherwise sleep
MonTop ==
    /\ run_pc = "running"
    /\ mon_pc = "top"
    /\ IF MonitorPolls(management_enabled) /\ since_check >= CheckInterval
       THEN /\ since_check' = 0
            /\ mon_pc' = "query"
       ELSE /\ since_check' = Min(CheckInterval, since_check + MonitorSleep)
            /\ mon_pc' = "top"
    /\ UNCHANGED <<envVars, connected, management_enabled, running,
                   bt_management_enabled, procVars, status, run_pc, upd_pc,
                   upd_bt, mon_connected, reconnect_attempt, cba_pc, dash_pc, cd, histVars>>
    /\ UNCHANGED extVars

\* line 543: connected = await run_in_executor(is_device_connected)
MonQuery ==
    /\ mon_pc = "query"
    /\ \E ok \in (IF link THEN CommandOutcomes ELSE {TRUE}) :
          /\ connected' = IsConnectedResult(ok, link)
          /\ events' = (IF ok THEN events ELSE events + 1)
          /\ mon_connected' = connected'
          /\ h_true_seen' = TrueSeenAfter(connected', TRUE)
          /\ h_stop_pending' =
                (h_stop_pending \/ (~connected' /\ process = "alive"))
          /\ h_mon_fault' = ~ok
    /\ mon_pc' = "polled"
    /\ UNCHANGED <<worldVars, management_enabled, since_check, running,
                   bt_management_enabled, procVars, status, run_pc, upd_pc,
                   upd_bt, reconnect_attempt, cba_pc, dash_pc, cd,
                   h_disc_stopped>>
    /\ UNCHANGED <<h_loop_error, h_failed, h_crashed>>
    /\ UNCHANGED extVars

\* a counter that does not advance
NextAttempt_same(n) == n

\* a monitor loop that ends when its body raises
MonAfterError_exit == "exited"

\* lines 578-580: an exception in the body is logged, the loop sleeps 10 s
\* and goes on
MonAfterError == "top"

\* line 543: the executor call raises instead of returning a result
MonError ==
    /\ mon_pc = "query"
    /\ events < MaxEvents
    /\ events' = events + 1
    /\ mon_pc' = MonAfterError
    /\ since_check' = CheckInterval
    /\ h_loop_error' = "mon"
    /\ UNCHANGED <<worldVars, connected, management_enabled, running,
                   bt_management_enabled, procVars, status, run_pc, upd_pc,
                   upd_bt, mon_connected, reconnect_attempt, cba_pc, dash_pc,
                   cd, h_stop_pending, h_disc_stopped, h_true_seen,
                   h_mon_fault, h_failed, h_crashed>>
    /\ UNCHANGED extVars

\* line 546
NextAttempt(n) == n + 1

\* a monitor that leaves the player alone
MonStopProcess_keep(p) == p

\* lines 554-559: stop the player as soon as the poll finds no connection
MonStopProcess(p) == Terminate(p)

\* lines 572-574
ClearReconnect(st) ==
    IF st.reconnecting
    THEN [st EXCEPT !.reconnecting = FALSE, !.reconnect_attempt = 0]
    ELSE st

\* lines 545-562 (not connected) and 570-577 (connected)
MonHandle ==
    /\ mon_pc = "polled"
    /\ IF ~mon_connected
       THEN /\ reconnect_attempt < MaxAttempt
            /\ reconnect_attempt' = NextAttempt(reconnect_attempt)
            /\ status' = [status EXCEPT
                            !.reconnecting = TRUE,
                            !.reconnect_attempt = NextAttempt(reconnect_attempt)]
            /\ process' = MonStopProcess(process)
            /\ h_disc_stopped' =
                  (IF process = "alive" /\ process' # "alive"
                   THEN "stopped" ELSE h_disc_stopped)
            /\ h_stop_pending' = (h_stop_pending /\ process' = "alive")
            /\ cd' = [cd EXCEPT !["mon"] = StartCD]
            /\ mon_pc' = "connecting"
            /\ UNCHANGED <<since_check, h_failed>>
       ELSE /\ status' = ClearReconnect(status)
            /\ reconnect_attempt' = 0
            /\ mon_pc' = "top"
            /\ since_check' \in {MonitorSleep, CheckInterval}
            /\ h_failed' = 0
            /\ UNCHANGED <<process, cd, h_disc_stopped, h_stop_pending>>
    /\ UNCHANGED <<envVars, connected, management_enabled, running,
                   bt_management_enabled, bluetooth_sink_name, run_pc,
                   upd_pc, upd_bt, mon_connected, cba_pc, dash_pc,
                   h_true_seen>>
    /\ h_loop_error' = (IF h_loop_error = "mon" THEN "none" ELSE h_loop_error)
    /\ UNCHANGED <<h_mon_fault, h_crashed>>
    /\ UNCHANGED extVars

\* a monitor that treats every connect attempt as a success
MonRestarts_always(success) == TRUE

\* line 563: the player is started again only after a successful connect
MonRestarts(success) == success

\* lines 562-569 and 577: connect_device has returned
MonAfterConnect ==
    /\ mon_pc = "connecting"
    /\ cd["mon"].pc = "ret"
    /\ IF MonRestarts(cd["mon"].ret)
       THEN /\ reconnect_attempt' = 0
            /\ status' = [status EXCEPT !.reconnecting = FALSE,
                                        !.reconnect_attempt = 0]
            /\ StartSendspin
       ELSE UNCHANGED <<reconnect_attempt, status, procVars, events, h_stop_pending,
                        h_disc_stopped>>
    /\ h_failed' = (IF cd["mon"].ret THEN 0 ELSE h_failed + 1)
    /\ h_mon_fault' = FALSE
    /\ cd' = [cd EXCEPT !["mon"] = IdleCD]
    /\ mon_pc' = "top"
    /\ since_check' \in {MonitorSleep, CheckInterval}
    /\ UNCHANGED <<worldVars, connected, management_enabled, running,
                   bt_management_enabled, run_pc, upd_pc, upd_bt,
                   mon_connected, cba_pc, dash_pc, h_true_seen>>
    /\ h_crashed' = (IF h_crashed = "crashed" /\ process' = "alive"
                     THEN "no" ELSE h_crashed)
    /\ UNCHANGED h_loop_error
    /\ UNCHANGED extVars

\* ---- SendspinClient.run.connect_bluetooth_async ---------------------------

\* lines 1017-1024: after the 2 s sleep, connect unless released
CbaWake ==
    /\ run_pc = "running"
    /\ cba_pc = "wait"
    /\ IF bt_management_enabled
       THEN /\ cba_pc' = "connecting"
            /\ cd' = [cd EXCEPT !["cba"] = StartCD]
       ELSE /\ cba_pc' = "done"
            /\ UNCHANGED cd
    /\ UNCHANGED <<envVars, btVars, running, bt_management_enabled, procVars,
                   status, run_pc, upd_pc, upd_bt, mon_pc, mon_connected,
                   reconnect_attempt, dash_pc, histVars>>
    /\ UNCHANGED extVars

\* line 1025: status['bluetooth_connected'] = is_device_connected()
CbaAfter ==
    /\ cba_pc = "connecting"
    /\ cd["cba"].pc = "ret"
    /\ \E r \in QueryResults :
          /\ connected' = r
          /\ QueryFault(r)
          /\ status' = [status EXCEPT !.bluetooth_connected = r]
          /\ h_true_seen' = TrueSeenAfter(r, FALSE)
    /\ cd' = [cd EXCEPT !["cba"] = IdleCD]
    /\ cba_pc' = "done"
    /\ UNCHANGED <<worldVars, management_enabled, since_check, running,
                   bt_management_enabled, procVars, run_pc, upd_pc, upd_bt,
                   mon_pc, mon_connected, reconnect_attempt, dash_pc,
                   h_stop_pending, h_disc_stopped>>
    /\ UNCHANGED errVars
    /\ UNCHANGED extVars

\* ---- BluetoothManager.connect_device (one activation per caller) ---------

cdOther == <<management_enabled, since_check, running, bt_management_enabled,
             status, run_pc, upd_pc, upd_bt, mon_pc, mon_connected,
             reconnect_attempt, cba_pc, dash_pc>>

\* a connect_device that goes through the connect sequence regardless
AfterFirstQuery_always(r) == "paircheck"

\* lines 482-492: an already connected device only gets its audio configured
AfterFirstQuery(r) == IF r THEN "cfg" ELSE "paircheck"

\* lines 482-484
CDQuery0(c) ==
    /\ cd[c].pc = "q0"
    /\ \E r \in QueryResults :
          /\ connected' = r
          /\ QueryFault(r)
          /\ h_true_seen' = TrueSeenAfter(r, FALSE)
          /\ cd' = [cd EXCEPT ![c] = [@ EXCEPT !.pc = AfterFirstQuery(r),
                                               !.q0 = r,
                                               !.cmds = @ \cup {"info"}]]
    /\ UNCHANGED <<worldVars, procVars, cdOther, h_stop_pending, h_disc_stopped>>
    /\ UNCHANGED errVars
    /\ UNCHANGED extVars

\* line 492: pair only a device that is not paired
AfterPairedCheck(is_paired) == IF is_paired THEN "power" ELSE "pair"

\* line 492: is_device_paired
CDPairCheck(c) ==
    /\ cd[c].pc = "paircheck"
    /\ \E r \in PairedResults :
          /\ events' = (IF paired /\ ~r THEN events + 1 ELSE events)
          /\ cd' = [cd EXCEPT ![c] = [@ EXCEPT !.pc = AfterPairedCheck(r),
                                            !.need_pair = ~r,
                                            !.cmds = @ \cup {"info"}]]
    /\ UNCHANGED <<worldVars, connected, procVars, cdOther, histVars>>
    /\ UNCHANGED extVars

\* lines 494-495: a failed pairing ends connect_device with False
AfterPair(ok) == IF ok THEN "power" ELSE "ret"

\* the commands of the pairing session, lines 339-345
PairCommands == {"power on", "agent on", "scan on", "pair", "trust"}

\* lines 327-362: pair_device, ok iff the output confirms the pairing
PairDevice(ok) == paired' = (paired \/ ok)

\* lines 493-495
CDPair(c) ==
    /\ cd[c].pc = "pair"
    /\ \E ok \in BOOLEAN :
          /\ PairDevice(ok)
          /\ cd' = [cd EXCEPT ![c] = [@ EXCEPT !.pc = AfterPair(ok),
                                               !.pair_ok = ok,
                                               !.ret = FALSE,
                                               !.cmds = @ \cup PairCommands]]
    /\ UNCHANGED <<link, events, connected, procVars, cdOther,
                   histVars>>
    /\ UNCHANGED extVars

\* lines 498-499
CDPower(c) ==
    /\ cd[c].pc = "power"
    /\ cd' = [cd EXCEPT ![c] = [@ EXCEPT !.pc = "connect",
                                         !.cmds = @ \cup {"power on"}]]
    /\ UNCHANGED <<envVars, connected, procVars, cdOther, histVars>>
    /\ UNCHANGED extVars

\* line 502: the connect command; the link comes up or not
CDConnect(c) ==
    /\ cd[c].pc = "connect"
    /\ link' \in (IF paired THEN {TRUE, link} ELSE {link})
    /\ cd' = [cd EXCEPT ![c] = [@ EXCEPT !.pc = "check",
                                         !.i = 0,
                                         !.cmds = @ \cup {"connect"}]]
    /\ UNCHANGED <<paired, events, connected, procVars, cdOther,
                   histVars>>
    /\ UNCHANGED extVars

AfterCheck_once(r, done) == IF r THEN "cfg" ELSE "ret"

\* lines 505-515: success at the first check that reports connected, failure
\* after ConnectChecks checks
AfterCheck(r, done) ==
    IF r THEN "cfg" ELSE IF done >= ConnectChecks THEN "ret" ELSE "check"

\* lines 505-509
CDCheck(c) ==
    /\ cd[c].pc = "check"
    /\ \E r \in QueryResults :
          /\ connected' = r
          /\ QueryFault(r)
          /\ h_true_seen' = TrueSeenAfter(r, FALSE)
          /\ cd' = [cd EXCEPT ![c] = [@ EXCEPT !.pc = AfterCheck(r, cd[c].i + 1),
                                               !.i = (IF AfterCheck(r, @ + 1) = "check" THEN @ + 1 ELSE 0),
                                               !.ret = FALSE,
                                               !.cmds = @ \cup {"info"}]]
    /\ UNCHANGED <<worldVars, procVars, cdOther, h_stop_pending, h_disc_stopped>>
    /\ UNCHANGED errVars
    /\ UNCHANGED extVars

\* lines 486-487 and 511-512: configure_bluetooth_audio, then return True
CDConfigure(c) ==
    /\ cd[c].pc = "cfg"
    /\ \E avail \in SinkCases :
          bluetooth_sink_name' = ConfiguredSink(bluetooth_sink_name, avail)
    /\ cd' = [cd EXCEPT ![c] = [@ EXCEPT !.pc = "ret", !.ret = TRUE]]
    /\ UNCHANGED <<envVars, connected, process, cdOther, histVars>>
    /\ UNCHANGED extVars

\* ---- BluetoothManager.disconnect_device -----------------------------------

\* lines 517-522: connected is cleared when the command succeeded; the link
\* itself drops or not
DisconnectDevice ==
    \E ok \in LaunchResults :
        /\ events' = (IF ok THEN events ELSE events + 1)
        /\ connected' = (IF ok THEN FALSE ELSE connected)
        /\ link' \in (IF ok THEN {FALSE, link} ELSE {link})

\* ---- dashboard commands (web_interface.py) --------------------------------

dashOther == <<since_check, running, status, run_pc, upd_pc, upd_bt, mon_pc,
               mon_connected, reconnect_attempt, cba_pc>>

\* the dashboard is used once the start-up connect has finished
DashboardOpen == run_pc = "running" /\ cba_pc = "done"

\* api_bt_reconnect, lines 1973-1995: the request starts a thread
DashReconnect ==
    /\ DashboardOpen
    /\ dash_pc = "idle"
    /\ events < MaxEvents
    /\ dash_pc' = "rc_disc"
    /\ events' = events + 1
    /\ UNCHANGED <<worldVars, connected, management_enabled,
                   bt_management_enabled, procVars, dashOther, cd, histVars>>
    /\ UNCHANGED extVars

\* _do_reconnect, lines 1988-1990: disconnect, then connect
DashReconnectDisconnect ==
    /\ dash_pc = "rc_disc"
    /\ DisconnectDevice
    /\ h_stop_pending' = (h_stop_pending \/ (link /\ ~link' /\ process = "alive"))
    /\ dash_pc' = "rc_conn"
    /\ cd' = [cd EXCEPT !["dash"] = StartCD]
    /\ UNCHANGED <<paired, management_enabled,
                   bt_management_enabled, procVars, dashOther,
                   h_disc_stopped, h_true_seen>>
    /\ UNCHANGED errVars
    /\ UNCHANGED extVars

\* api_bt_pair, lines 2001-2022
DashPair ==
    /\ DashboardOpen
    /\ dash_pc = "idle"
    /\ events < MaxEvents
    /\ dash_pc' = "pr_pair"
    /\ events' = events + 1
    /\ UNCHANGED <<worldVars, connected, management_enabled,
                   bt_management_enabled, procVars, dashOther, cd, histVars>>
    /\ UNCHANGED extVars

\* _do_pair, lines 2016-2017: pair_device (result ignored), then connect
DashPairDevice ==
    /\ dash_pc = "pr_pair"
    /\ \E ok \in BOOLEAN : PairDevice(ok)
    /\ dash_pc' = "pr_conn"
    /\ cd' = [cd EXCEPT !["dash"] = StartCD]
    /\ UNCHANGED <<link, events, connected, management_enabled,
                   bt_management_enabled, procVars, dashOther,
                   histVars>>
    /\ UNCHANGED extVars

\* the thread of _do_reconnect / _do_pair ends when connect_device returns
DashAfterConnect ==
    /\ dash_pc \in {"rc_conn", "pr_conn"}
    /\ cd["dash"].pc = "ret"
    /\ dash_pc' = "idle"
    /\ cd' = [cd EXCEPT !["dash"] = IdleCD]
    /\ UNCHANGED <<envVars, connected, management_enabled,
                   bt_management_enabled, procVars, dashOther,
                   histVars>>
    /\ UNCHANGED extVars

\* api_bt_management, lines 2028-2049: the request starts a thread running
\* set_bt_management_enabled(enabled)
DashManagement(enabled) ==
    /\ DashboardOpen
    /\ dash_pc = "idle"
    /\ events < MaxEvents
    /\ dash_pc' = (IF enabled THEN "mg_on" ELSE "mg_off")
    /\ events' = events + 1
    /\ UNCHANGED <<worldVars, connected, management_enabled,
                   bt_management_enabled, procVars, dashOther, cd, histVars>>
    /\ UNCHANGED extVars

\* set_bt_management_enabled, lines 1065-1076: the flags, and on release the
\* terminate of a running player
SetManagement ==
    /\ dash_pc \in {"mg_on", "mg_off"}
    /\ bt_management_enabled' = (dash_pc = "mg_on")
    /\ management_enabled' = (dash_pc = "mg_on")
    /\ IF dash_pc = "mg_off"
       THEN /\ process' = Terminate(process)
            /\ h_stop_pending' = FALSE
            /\ dash_pc' = "mg_disc"
       ELSE /\ dash_pc' = "idle"
            /\ UNCHANGED <<process, h_stop_pending>>
    /\ UNCHANGED <<envVars, connected, bluetooth_sink_name, dashOther, cd, h_disc_stopped, h_true_seen>>
    /\ UNCHANGED errVars
    /\ UNCHANGED extVars

\* set_bt_management_enabled, lines 1078-1082: disconnect on release
ReleaseDisconnect ==
    /\ dash_pc = "mg_disc"
    /\ DisconnectDevice
    /\ dash_pc' = "idle"
    /\ UNCHANGED <<paired, management_enabled,
                   bt_management_enabled, procVars, dashOther, cd,
                   histVars>>
    /\ UNCHANGED extVars

\* ---- the world ------------------------------------------------------------

progVars == <<connected, management_enabled, since_check, running,
              bt_management_enabled, bluetooth_sink_name, status, run_pc,
              upd_pc, upd_bt, mon_pc, mon_connected, reconnect_attempt,
              cba_pc, dash_pc, cd>>

\* the speaker is switched off or goes out of range
LinkDown ==
    /\ link
    /\ events < MaxEvents
    /\ link' = FALSE
    /\ events' = events + 1
    /\ UNCHANGED <<paired, process, progVars, histVars>>
    /\ UNCHANGED extVars

\* a paired speaker connects by itself, or the host connects it
LinkUp ==
    /\ ~link /\ paired
    /\ events < MaxEvents
    /\ link' = TRUE
    /\ events' = events + 1
    /\ UNCHANGED <<paired, process, progVars, histVars>>
    /\ UNCHANGED extVars

\* the player process exits unexpectedly
ProcCrash ==
    /\ process = "alive"
    /\ events < MaxEvents
    /\ process' = "dead"
    /\ events' = events + 1
    /\ h_stop_pending' = FALSE
    /\ UNCHANGED <<link, paired, progVars,
                   h_disc_stopped, h_true_seen>>
    /\ h_crashed' = "crashed"
    /\ UNCHANGED <<h_mon_fault, h_loop_error, h_failed>>
    /\ UNCHANGED extVars

\* a terminated player process exits
ProcExit ==
    /\ process = "term"
    /\ process' = "dead"
    /\ UNCHANGED <<envVars, progVars, histVars>>
    /\ UNCHANGED extVars

Next ==
    \/ RunStart
    \/ UpdQuery
    \/ UpdHandle
    \/ UpdError
    \/ MonTop
    \/ MonQuery
    \/ MonError
    \/ MonHandle
    \/ MonAfterConnect
    \/ CbaWake
    \/ CbaAfter
    \/ \E c \in Callers : CDQuery0(c)
    \/ \E c \in Callers : CDPairCheck(c)
    \/ \E c \in Callers : CDPair(c)
    \/ \E c \in Callers : CDPower(c)
    \/ \E c \in Callers : CDConnect(c)
    \/ \E c \in Callers : CDCheck(c)
    \/ \E c \in Callers : CDConfigure(c)
    \/ DashReconnect
    \/ DashReconnectDisconnect
    \/ DashPair
    \/ DashPairDevice
    \/ DashAfterConnect
    \/ \E en \in BOOLEAN : DashManagement(en)
    \/ SetManagement
    \/ ReleaseDisconnect
    \/ LinkDown
    \/ LinkUp
    \/ ProcCrash
    \/ ProcExit

Spec == Init /\ [][Next]_vars

\* the status loop is scheduled again after each sleep (asyncio.sleep(10),
\* lines 709 and 712) and its executor call returns
FairSpec == Spec /\ WF_vars(UpdQuery) /\ WF_vars(UpdHandle)

\* ---- properties -----------------------------------------------------------

\* this step launched a player process: Popen returned (line 842)
Launched ==
    /\ process' = "alive"
    /\ \/ process # "alive"
       \/ mon_pc = "connecting" /\ mon_pc' = "top" /\ cd["mon"].ret

\* this step of caller c sent a connection query, a pairing session or a
\* connect command to bluetoothctl
ControlStep(c) ==
    /\ cd[c].pc \in {"q0", "paircheck", "pair", "connect", "check"}
    /\ cd'[c] # cd[c]

\* this step queried the connection state outside connect_device
PollStep ==
    \/ upd_pc = "sleep" /\ upd_pc' = "queried"
    \/ mon_pc = "query" /\ mon_pc' = "polled"
    \/ cba_pc = "connecting" /\ cba_pc' = "done"

\* this step issued a reconnect attempt: the connect_device call of the
\* monitor (line 562) or of the dashboard's forced reconnect (line 1990)
ReconnectIssued ==
    \/ cd["mon"].pc = "idle" /\ cd'["mon"].pc = "q0"
    \/ dash_pc = "rc_disc" /\ dash_pc' = "rc_conn"

\* the caller of activation c takes a True result of connect_device
SuccessTaken(c) == cd[c].pc = "ret" /\ cd[c].ret /\ cd'[c].pc = "idle"

\* C1: the player process is never running while the connection state of
\* the device is Disconnected.
C1_RunningOnlyWhenConnected == process = "alive" => connected

\* C2: every launch of the player process happens at a moment when the
\* connection state is Connected.
C2_LaunchOnlyWhenConnected == [][Launched => connected]_vars

\* C3: once a disconnect is detected by the monitor poll or forced by the
\* dashboard reconnect command, the player is requested to stop before any
\* connect attempt is issued.
C3_StopBeforeReconnect ==
    [][ReconnectIssued => ~h_stop_pending']_vars

\* C4: after the monitor has stopped the player because of a disconnect, the
\* player is not launched again until a connection query has returned true
\* (after the poll that found the device disconnected).
C4_NoRestartUntilConnected ==
    [][(Launched /\ h_disc_stopped = "stopped") => h_true_seen]_vars

\* C4: the player was stopped on a disconnect and has been launched again
C4_Restarted == h_disc_stopped = "restarted" /\ process = "alive"

\* C5: the player process does not survive a monitor poll that observed the
\* device as disconnected: the poll's handling leaves no live player.
C5_StoppedWithinPoll ==
    [][(mon_pc = "polled" /\ ~mon_connected /\ mon_pc' # "polled")
          => process' # "alive"]_vars

\* C5: the monitor found a connected device with a running player
\* disconnected and has terminated the player
C5_MonitorStopped ==
    /\ status.bluetooth_connected
    /\ ~connected
    /\ mon_pc = "connecting"
    /\ h_disc_stopped = "stopped"
    /\ process = "term"

\* C6: while the device is released the player process does not run.
C6_ReleasedNotRunning == process = "alive" => bt_management_enabled

\* C7: while the device is released no connection-state query and no connect
\* or pair command is issued.
C7_ReleasedNoControl ==
    [][~management_enabled =>
          ~(PollStep \/ (\E c \in Callers : ControlStep(c))
                     \/ (dash_pc = "pr_pair" /\ dash_pc' = "pr_conn"))]_vars

\* C8: status reconnect_attempt grows by one on each monitor poll that finds
\* the device disconnected, decreases only by being reset to 0 in a poll cycle
\* that observed the device connected (the poll itself, or the connect attempt
\* of that cycle), and is 0 at the end of every such cycle.
C8_AttemptCounter ==
    [][/\ (mon_pc = "polled" /\ ~mon_connected /\ mon_pc' = "connecting")
            => status'.reconnect_attempt = status.reconnect_attempt + 1
       /\ status'.reconnect_attempt < status.reconnect_attempt
            => /\ status'.reconnect_attempt = 0
               /\ \/ mon_pc = "polled" /\ mon_connected
                  \/ mon_pc = "connecting" /\ cd["mon"].ret
       /\ (\/ mon_pc = "polled" /\ mon_connected /\ mon_pc' = "top"
           \/ mon_pc = "connecting" /\ cd["mon"].ret /\ mon_pc' = "top")
            => status'.reconnect_attempt = 0]_vars

\* C8: the counter has grown over two polls and the connect attempt of the
\* current cycle has succeeded
C8_GrownThenConnected ==
    /\ status.reconnect_attempt = MaxAttempt
    /\ mon_pc = "connecting"
    /\ cd["mon"].pc = "ret"
    /\ cd["mon"].ret

\* C9: connect_device on a device whose first query reports connected sends
\* nothing but that query (no pair, power on, connect or disconnect) and
\* returns True.
C9_ConnectIdempotent ==
    \A c \in Callers :
        cd[c].q0 => /\ cd[c].cmds \subseteq {"info"}
                    /\ cd[c].pc \in {"cfg", "ret"}
                    /\ cd[c].pc = "ret" => cd[c].ret

\* C9: a connect_device call on an already connected device has returned
C9_ReturnedAlreadyConnected ==
    \E c \in Callers : cd[c].q0 /\ cd[c].pc = "ret" /\ link

\* C10: connect_device on a device that is neither connected nor paired pairs
\* before it sends the connect command, returns False without the connect
\* command when the pairing fails, and when it returns True the player process
\* is then launched with a resolved sink.
C10_PairConnectStart ==
    [][\A c \in Callers : cd[c].need_pair =>
          /\ (cd[c].pc = "connect" /\ cd'[c].pc = "check")
                => (cd[c].pair_ok /\ PairCommands \subseteq cd[c].cmds)
          /\ (cd[c].pc = "pair" /\ cd'[c].pc = "ret")
                => (~cd'[c].ret /\ "connect" \notin cd'[c].cmds)
          /\ SuccessTaken(c)
                => (Launched /\ bluetooth_sink_name' # 0)]_vars

\* C11: when the player of a managed device has exited while Bluetooth is
\* connected, the status loop eventually has it running again, unless the
\* device is seen disconnected or is released first.
C11_CrashRestarted ==
    (process = "dead" /\ connected /\ bt_management_enabled)
        ~> (process = "alive" \/ ~connected \/ ~bt_management_enabled)

\* C11: a player that exited by itself has been launched again by the status
\* loop
C11_RestartedByStatusLoop == h_crashed = "restarted" /\ process = "alive"

\* C12: every monitor poll that finds the device disconnected issues a connect
\* attempt whatever the attempt count; after a failed cycle the status stays
\* reconnecting and its attempt counter equals the number of consecutive
\* failed cycles.
C12_KeepsRetrying ==
    [][/\ (mon_pc = "polled" /\ ~mon_connected /\ mon_pc' # "polled")
            => (cd'["mon"].pc = "q0" /\ status'.reconnecting)
       /\ (mon_pc = "connecting" /\ mon_pc' = "top" /\ ~cd["mon"].ret)
            => /\ status'.reconnecting
               /\ status'.reconnect_attempt = h_failed'
               /\ h_failed' = h_failed + 1
       /\ h_failed' > 0
            => /\ status'.reconnecting
               /\ status'.reconnect_attempt \in {h_failed', h_failed' + 1}]_vars

\* C12: two poll cycles in a row have failed and the monitor is back at its
\* poll
C12_FailedTwice ==
    /\ h_failed = MaxAttempt
    /\ mon_pc = "top"
    /\ status.reconnecting
    /\ status.reconnect_attempt = MaxAttempt

\* C13: whatever external tool fails, the status loop and the monitor loop
\* stay in their cycle.
C13_LoopsKeepRunning ==
    running => /\ upd_pc \in {"sleep", "queried"}
               /\ mon_pc \in {"top", "query", "polled", "connecting"}

\* C13: the body of the status loop raised and the loop has polled again
C13_PolledAfterError == h_loop_error = "upd" /\ upd_pc = "queried"

\* C14: a monitor poll whose bluetoothctl command failed or timed out reports
\* not connected, and the monitor then takes the disconnect path: the player
\* is stopped, the attempt counter grows by one and connect_device is called.
C14_FailedQueryIsDisconnect ==
    [][/\ (mon_pc = "query" /\ mon_pc' = "polled" /\ h_mon_fault')
            => (~mon_connected' /\ ~connected')
       /\ (mon_pc = "polled" /\ h_mon_fault /\ mon_pc' # "polled")
            => /\ process' # "alive"
               /\ status'.reconnect_attempt = status.reconnect_attempt + 1
               /\ cd'["mon"].pc = "q0"]_vars

\* C14: the poll's command failed although the speaker is connected, and the
\* monitor has stopped the player and started a connect attempt
C14_FaultHandled ==
    /\ h_mon_fault
    /\ link
    /\ mon_pc = "connecting"
    /\ h_disc_stopped = "stopped"
    /\ status.reconnect_attempt = 1

\* ---- where the blocking calls run -----------------------------------------

\* line 1025: the start-up connect coroutine calls is_device_connected
\* (subprocess.run, timeout 10) itself, after its awaited connect_device
SchedulerQuery == cba_pc = "connecting" /\ cba_pc' = "done"

\* lines 789-790: the coroutine start_sendspin_process calls
\* configure_bluetooth_audio (time.sleep(3), pactl) itself; the sink is set
\* by a step that is not connect_device's configure step on a worker
SchedulerConfigure ==
    /\ StartConfigures(connected, bluetooth_sink_name)
    /\ bluetooth_sink_name' # bluetooth_sink_name
    /\ \A c \in Callers : ~(cd[c].pc = "cfg" /\ cd'[c].pc # "cfg")

\* C18: every blocking operation (a bluetoothctl or pactl command, a sleep
\* of the sink configuration) runs on a pool worker, never on the scheduler.
C18_BlockingOnWorker == [][~SchedulerQuery /\ ~SchedulerConfigure]_vars

\* ---- player output of one device ------------------------------------------
\* start_sendspin_process (783-870) and monitor_output (872-993) of one
\* SendspinClient.  Player instances are numbered in launch order; the
\* Bluetooth side is reduced to the flag bt_manager.connected and the sink
\* resolution.

\* the lines of a player that change status['playing'] (lines 899, 916)
LineKinds == {"STARTED", "STOPPED"}

\* sets of sink names pactl may know: none, PipeWire's, legacy PulseAudio's
SinkSets == {{}, {1}, {3, 4}}

\* lines 835-837: pulse_sink = f"bluez_sink.{pa_mac}.a2dp_sink", which is
\* sink_names[2] of configure_bluetooth_audio
PulseSink == 3

\* lines 898-917: the value a line leaves in status['playing']
PlayingAfter(kind) == kind = "STARTED"

\* one more instance can be launched
OutMayLaunch == out.launches < MaxLaunches

\* lines 789-790: the sink name after the configure step of the start
SinkAfterStart(avail) ==
    IF StartConfigures(out.connected, out.bluetooth_sink_name)
    THEN ConfiguredSink(out.bluetooth_sink_name, avail)
    ELSE out.bluetooth_sink_name

\* a start that leaves the previous instance alone
LiveAfterKill_keep(l, p) == l

\* lines 792-802: an instance that is still alive is terminated, waited for
\* 3 s and killed if it has not exited
LiveAfterKill(l, p) == l \ {p}

\* start_sendspin_process, lines 783-870, called by run (1001), by
\* update_status for a dead player of a connected device (679-683) and by
\* the monitor after a successful reconnect (563-569)
OutStart ==
    /\ OutMayLaunch
    /\ out.launches = 0 \/ out.connected
    /\ \E avail \in SinkSets, popen_ok \in BOOLEAN :
          IF popen_ok
          THEN out' = [out EXCEPT
                         !.bluetooth_sink_name = SinkAfterStart(avail),
                         !.launches = @ + 1,
                         !.process = out.launches + 1,
                         !.live = LiveAfterKill(@, out.process)
                                    \cup {out.launches + 1},
                         !.killed = out.live \cap {out.process},
                         !.pulse_sink = PulseSink,
                         !.playing = FALSE,
                         !.line_of = 0,
                         !.monitor_task = "pending"]
          ELSE out' = [out EXCEPT
                         !.bluetooth_sink_name = SinkAfterStart(avail),
                         !.live = LiveAfterKill(@, out.process),
                         !.killed = out.live \cap {out.process}]
    /\ UNCHANGED <<devVars, pool, two, fleet, vol, conn, rd, mg, af>>

\* monitor_output up to its executor call, lines 872-989: the task binds
\* process = self.process and hands _read_until_eof to a worker
OutTaskRun ==
    /\ out.monitor_task = "pending"
    /\ out' = [out EXCEPT !.monitor_task = "reading",
                          !.readers = @ \cup {out.process}]
    /\ UNCHANGED <<devVars, pool, two, fleet, vol, conn, rd, mg, af>>

\* a running player writes a line to its stdout
OutEmit(i, kind) ==
    /\ i \in out.live
    /\ Len(out.pipe[i]) < MaxLines
    /\ out' = [out EXCEPT !.pipe[i] = Append(@, kind)]
    /\ UNCHANGED <<devVars, pool, two, fleet, vol, conn, rd, mg, af>>

\* one pass of the loop of _read_until_eof, lines 892-917: readline on the
\* captured process, then the status update
OutRead(i) ==
    /\ i \in out.readers
    /\ out.pipe[i] # <<>>
    /\ out' = [out EXCEPT !.pipe[i] = Tail(@),
                          !.playing = PlayingAfter(Head(out.pipe[i])),
                          !.line_of = i]
    /\ UNCHANGED <<devVars, pool, two, fleet, vol, conn, rd, mg, af>>

\* readline returns '' (line 892): the instance has exited and its pipe is
\* drained; the worker returns, and so does its task if still awaiting it
OutEof(i) ==
    /\ i \in out.readers
    /\ i \notin out.live
    /\ out.pipe[i] = <<>>
    /\ out' = [out EXCEPT
                 !.readers = @ \ {i},
                 !.monitor_task = IF i = out.process /\ @ = "reading"
                                  THEN "ended" ELSE @]
    /\ UNCHANGED <<devVars, pool, two, fleet, vol, conn, rd, mg, af>>

\* a player exits by itself
OutExit(i) ==
    /\ i \in out.live
    /\ out' = [out EXCEPT !.live = @ \ {i}]
    /\ UNCHANGED <<devVars, pool, two, fleet, vol, conn, rd, mg, af>>

\* the monitor's poll finds the speaker disconnected, lines 543-559:
\* connected = False and the live player is terminated
OutLost ==
    /\ out.connected
    /\ out' = [out EXCEPT !.connected = FALSE, !.live = @ \ {out.process}]
    /\ UNCHANGED <<devVars, pool, two, fleet, vol, conn, rd, mg, af>>

\* connect_device succeeds, lines 482-487 and 507-512: connected = True and
\* configure_bluetooth_audio resolves the sink
OutConnect ==
    /\ ~out.connected
    /\ \E avail \in SinkSets :
          out' = [out EXCEPT
                    !.connected = TRUE,
                    !.bluetooth_sink_name = ConfiguredSink(@, avail)]
    /\ UNCHANGED <<devVars, pool, two, fleet, vol, conn, rd, mg, af>>

OutNext ==
    \/ OutStart
    \/ OutTaskRun
    \/ \E i \in 1..MaxLaunches, kind \in LineKinds : OutEmit(i, kind)
    \/ \E i \in 1..MaxLaunches : OutRead(i)
    \/ \E i \in 1..MaxLaunches : OutEof(i)
    \/ \E i \in 1..MaxLaunches : OutExit(i)
    \/ OutLost
    \/ OutConnect

OutSpecInit == DevRest /\ OutInit /\ PoolRest /\ TwoRest /\ FleetRest /\ VolRest /\ ConnRest /\ RdRest /\ MgRest /\ AfRest

OutSpec == OutSpecInit /\ [][OutNext]_vars

\* this step launched a player (Popen returned, line 842)
OutLaunched == out'.launches = out.launches + 1

\* C15: after a restart the status fields are modified only by lines of the
\* current process instance.
C15_StatusFromCurrentInstance == out.line_of # 0 => out.line_of = out.process

\* C17: the output of one device is consumed by at most one worker: no
\* second consumer worker of the device runs after a restart.
C17_SingleConsumerWorker == Cardinality(out.readers) <= 1

\* C20: when the player is launched while the speaker is connected and the
\* sink resolution has resolved a sink, the PULSE_SINK passed to the player
\* is that sink.
C20_EnvIsResolvedSink ==
    [][(OutLaunched /\ out.connected /\ out'.bluetooth_sink_name # 0)
          => out'.pulse_sink = out'.bluetooth_sink_name]_vars

\* ---- the default executor shared by all devices ---------------------------
\* Every run_in_executor(None, ...) of every device uses the loop's default
\* ThreadPoolExecutor; nothing in the source sizes or replaces it.

Devices == 1..NumDevices

\* workers that run a job
Busy ==
    Cardinality({d \in Devices : pool.cons[d] = "running"})
      + Cardinality({d \in Devices : pool.qry[d] = "running"})

\* the state of a job handed to the executor: it runs at once when a worker
\* is free and waits in the queue otherwise
Submitted == IF Busy < PoolSize THEN "running" ELSE "queued"

\* the queue after a job was handed in
QueueAfterSubmit(job) ==
    IF Busy < PoolSize THEN pool.queue ELSE Append(pool.queue, job)

\* a worker became free: it takes the oldest waiting job
ConsAfterFree(c) ==
    IF pool.queue # <<>> /\ Head(pool.queue)[1] = "cons"
    THEN [c EXCEPT ![Head(pool.queue)[2]] = "running"] ELSE c

QryAfterFree(q) ==
    IF pool.queue # <<>> /\ Head(pool.queue)[1] = "qry"
    THEN [q EXCEPT ![Head(pool.queue)[2]] = "running"] ELSE q

QueueAfterFree == IF pool.queue # <<>> THEN Tail(pool.queue) ELSE pool.queue

\* lines 842-860 and 989: the player of device d is launched and its
\* monitor_output hands _read_until_eof to the executor
PoolStartPlayer(d) ==
    /\ pool.cons[d] = "none"
    /\ pool' = [pool EXCEPT !.cons[d] = Submitted,
                            !.queue = QueueAfterSubmit(<<"cons", d>>)]
    /\ UNCHANGED <<devVars, out, two, fleet, vol, conn, rd, mg, af>>

\* line 892: the player of device d has exited, readline returns '' and
\* _read_until_eof returns
PoolPlayerExit(d) ==
    /\ pool.cons[d] = "running"
    /\ pool' = [cons |-> ConsAfterFree([pool.cons EXCEPT ![d] = "none"]),
                qry |-> QryAfterFree(pool.qry),
                queue |-> QueueAfterFree]
    /\ UNCHANGED <<devVars, out, two, fleet, vol, conn, rd, mg, af>>

\* lines 543 and 664: the monitor poll or the liveness poll of device d hands
\* is_device_connected to the executor and awaits it
PoolSubmitQuery(d) ==
    /\ pool.qry[d] = "idle"
    /\ pool' = [pool EXCEPT !.qry[d] = Submitted,
                            !.queue = QueueAfterSubmit(<<"qry", d>>)]
    /\ UNCHANGED <<devVars, out, two, fleet, vol, conn, rd, mg, af>>

\* is_device_connected returns (bluetoothctl has a timeout of 10 s, line 269)
PoolQueryDone(d) ==
    /\ pool.qry[d] = "running"
    /\ pool' = [cons |-> ConsAfterFree(pool.cons),
                qry |-> QryAfterFree([pool.qry EXCEPT ![d] = "idle"]),
                queue |-> QueueAfterFree]
    /\ UNCHANGED <<devVars, out, two, fleet, vol, conn, rd, mg, af>>

PoolNext ==
    \/ \E d \in Devices : PoolStartPlayer(d)
    \/ \E d \in Devices : PoolPlayerExit(d)
    \/ \E d \in Devices : PoolSubmitQuery(d)
    \/ \E d \in Devices : PoolQueryDone(d)

PoolSpecInit == DevRest /\ OutRest /\ PoolInit /\ TwoRest /\ FleetRest /\ VolRest /\ ConnRest /\ RdRest /\ MgRest /\ AfRest

PoolSpec == PoolSpecInit /\ [][PoolNext]_vars

\* C16: the output consumers never occupy the worker pool so that a pending
\* connection query cannot obtain a worker: while a query waits, some worker
\* is free or runs a job that ends by itself.
C16_QueryObtainsWorker ==
    (\E d \in Devices : pool.qry[d] = "queued")
        => Cardinality({d \in Devices : pool.cons[d] = "running"}) < PoolSize

\* ---- two devices side by side ---------------------------------------------
\* The monitor of each device, its player restarts and the dashboard's forced
\* reconnect, with connect_device reduced to its outcome.

\* the configured player names are distinct
PlayerName(d) == d

\* player_name of a request: of a client, or 0 for a missing or unknown name
RequestNames == {0} \cup {PlayerName(d) : d \in Clients}

\* a lookup that takes the last client
Lookup_last(name) == 2

\* web_interface.py lines 1978-1980: the first client with that player_name,
\* else _clients[0]
Lookup(name) ==
    IF \E d \in Clients : PlayerName(d) = name
    THEN CHOOSE d \in Clients :
            /\ PlayerName(d) = name
            /\ \A e \in Clients : PlayerName(e) = name => d <= e
    ELSE 1

\* run(), lines 1000-1001 and 1029: the player is started and the monitor
\* task created
TwoRunStart(d) ==
    /\ two.mon_pcs[d] = "init"
    /\ two' = [two EXCEPT !.mon_pcs[d] = "top", !.processes[d] = "alive"]
    /\ UNCHANGED <<devVars, out, pool, fleet, vol, conn, rd, mg, af>>

\* line 543: connected = await run_in_executor(is_device_connected)
TwoMonQuery(d) ==
    /\ two.mon_pcs[d] = "top"
    /\ two.links[d] \/ two.attempts[d] < MaxAttempt
    /\ two' = [two EXCEPT !.mon_pcs[d] = "polled",
                          !.connected[d] = two.links[d],
                          !.mon_seen[d] = two.links[d]]
    /\ UNCHANGED <<devVars, out, pool, fleet, vol, conn, rd, mg, af>>

\* lines 545-562 and 570-577
TwoMonHandle(d) ==
    /\ two.mon_pcs[d] = "polled"
    /\ IF two.mon_seen[d]
       THEN two' = [two EXCEPT !.mon_pcs[d] = "top",
                               !.attempts[d] = 0,
                               !.statuses[d] = ClearReconnect(@)]
       ELSE two' = [two EXCEPT
                      !.mon_pcs[d] = "connecting",
                      !.attempts[d] = NextAttempt(@),
                      !.statuses[d] =
                          [reconnecting |-> TRUE,
                           reconnect_attempt |-> NextAttempt(two.attempts[d])],
                      !.processes[d] = IF @ = "alive" THEN "dead" ELSE @]
    /\ UNCHANGED <<devVars, out, pool, fleet, vol, conn, rd, mg, af>>

\* lines 562-569: connect_device of the monitor returns; on success the
\* counters are cleared and the player is started
TwoMonConnect(d) ==
    /\ two.mon_pcs[d] = "connecting"
    /\ \E ok \in BOOLEAN :
          IF ok
          THEN two' = [two EXCEPT
                         !.mon_pcs[d] = "top",
                         !.links[d] = TRUE,
                         !.connected[d] = TRUE,
                         !.attempts[d] = 0,
                         !.statuses[d] = [reconnecting |-> FALSE,
                                          reconnect_attempt |-> 0],
                         !.processes[d] = "alive"]
          ELSE two' = [two EXCEPT !.mon_pcs[d] = "top"]
    /\ UNCHANGED <<devVars, out, pool, fleet, vol, conn, rd, mg, af>>

\* update_status, lines 671-683: a dead player of a connected device is
\* started again
TwoUpdRestart(d) ==
    /\ two.processes[d] = "dead"
    /\ UpdMayRestart(two.connected[d])
    /\ two' = [two EXCEPT !.processes[d] = "alive"]
    /\ UNCHANGED <<devVars, out, pool, fleet, vol, conn, rd, mg, af>>

\* the speaker of device d drops its connection
TwoLinkDown(d) ==
    /\ two.links[d]
    /\ two' = [two EXCEPT !.links[d] = FALSE]
    /\ UNCHANGED <<devVars, out, pool, fleet, vol, conn, rd, mg, af>>

\* api_bt_reconnect, web_interface.py lines 1973-1995: look the client up
\* and start the thread
TwoForceReconnect(name) ==
    /\ two.force.pc = "idle"
    /\ two' = [two EXCEPT !.force = [pc |-> "disc", name |-> name,
                                     client |-> Lookup(name)]]
    /\ UNCHANGED <<devVars, out, pool, fleet, vol, conn, rd, mg, af>>

\* _do_reconnect, line 1988: bt.disconnect_device() (lines 517-522)
TwoForceDisconnect ==
    /\ two.force.pc = "disc"
    /\ two' = [two EXCEPT !.force.pc = "conn",
                          !.links[two.force.client] = FALSE,
                          !.connected[two.force.client] = FALSE]
    /\ UNCHANGED <<devVars, out, pool, fleet, vol, conn, rd, mg, af>>

\* _do_reconnect, line 1990: bt.connect_device() returns
TwoForceConnect ==
    /\ two.force.pc = "conn"
    /\ \E ok \in BOOLEAN :
          IF ok \/ two.links[two.force.client]
          THEN two' = [two EXCEPT !.force = IdleForce,
                                  !.links[two.force.client] = TRUE,
                                  !.connected[two.force.client] = TRUE]
          ELSE two' = [two EXCEPT !.force = IdleForce]
    /\ UNCHANGED <<devVars, out, pool, fleet, vol, conn, rd, mg, af>>

TwoNext ==
    \/ \E d \in Clients : TwoRunStart(d)
    \/ \E d \in Clients : TwoMonQuery(d)
    \/ \E d \in Clients : TwoMonHandle(d)
    \/ \E d \in Clients : TwoMonConnect(d)
    \/ \E d \in Clients : TwoUpdRestart(d)
    \/ \E d \in Clients : TwoLinkDown(d)
    \/ \E name \in RequestNames : TwoForceReconnect(name)
    \/ TwoForceDisconnect
    \/ TwoForceConnect

TwoSpecInit == DevRest /\ OutRest /\ PoolRest /\ TwoInit /\ FleetRest /\ VolRest /\ ConnRest /\ RdRest /\ MgRest /\ AfRest

TwoSpec == TwoSpecInit /\ [][TwoNext]_vars

\* connection state, reconnect counters and process state of device d
DeviceState(d) ==
    <<two.links[d], two.connected[d], two.attempts[d], two.statuses[d],
      two.processes[d]>>

\* this step belongs to device d: its speaker drops, its monitor polls,
\* stops the player, reconnects or restarts, or the dashboard's forced
\* reconnect requested for d disconnects or connects
StepOn(d) ==
    \/ two.links[d] /\ ~two'.links[d] /\ two'.force = two.force
    \/ two'.mon_pcs[d] # two.mon_pcs[d]
    \/ /\ two.force.pc # "idle"
       /\ two.force.name = PlayerName(d)
       /\ two'.force # two.force

\* C19: a disconnect of device 1, forced or observed, and the stop, reconnect
\* and restart it causes on device 1 leave the connection state, the
\* reconnect counters and the process state of device 2 unchanged.
C19_OtherDeviceUnchanged ==
    [][StepOn(1) => DeviceState(2)' = DeviceState(2)]_vars

\* C19: device 1 was disconnected by a forced reconnect, its monitor has
\* stopped its player and is reconnecting; device 2 is connected and playing
C19_Device1Reconnecting ==
    /\ two.force.pc = "conn" /\ two.force.name = PlayerName(1)
    /\ two.mon_pcs[1] = "connecting"
    /\ two.processes[1] = "dead"
    /\ two.statuses[1].reconnect_attempt = 1
    /\ two.connected[2] /\ two.processes[2] = "alive"
    /\ ~two.statuses[2].reconnecting

\* C21: a start that launches a player has first ended the previous instance
\* of the device, and at most one player instance of the device is alive.
C21_OneLivePlayer ==
    /\ Cardinality(out.live) <= 1
    /\ out.live \subseteq {out.process}

\* C21: a start found the previous instance alive, ended it and launched the
\* next one, which is the only one alive
C21_Relaunched ==
    /\ out.killed # {}
    /\ out.process \notin out.killed
    /\ out.live = {out.process}

\* ======================================================================
\* MainSpec: main() builds one client per configured device, runs them
\* side by side and stops them on a shutdown signal.
\* ======================================================================
DeviceIndex == {0, 1}               \* enumerate(bt_devices)
PortEntries == {0, 8928, 8929}      \* a device's 'listen_port' or 'port'
                                    \* entry, 0 = the key is absent

\* int(device.get('listen_port') or device.get('port') or base_listen_port + i)
ListenPort(device, i) ==
    IF device.listen_port # 0 THEN device.listen_port
    ELSE IF device.port # 0 THEN device.port
    ELSE base_listen_port + i

\* the clients warned by the loop over used_ports: it logs and changes nothing
CollisionWarned(ports) ==
    {i \in DeviceIndex : \E j \in DeviceIndex : j < i /\ ports[j] = ports[i]}

DefaultWarned(ports) ==
    {i \in DeviceIndex \ CollisionWarned(ports) :
        ports[i] = 8928 /\ Cardinality(DeviceIndex) > 1}

FleetInit ==
    \E cfg \in [DeviceIndex -> [listen_port : PortEntries, port : PortEntries]],
       pl \in BOOLEAN :
        fleet = [bt_devices |-> cfg,
                 pc |-> "build",        \* main(): build / warn / gather / done
                 listen_port |-> [i \in DeviceIndex |-> 0],
                                        \* client.listen_port, 0 = not built
                 warned |-> {},         \* clients named in a port warning
                 running |-> [i \in DeviceIndex |-> FALSE],
                 process |-> [i \in DeviceIndex |-> "none"],
                                        \* none / live / exited
                 port_arg |-> [i \in DeviceIndex |-> 0],
                                        \* --port of the last launch
                 run_pc |-> [i \in DeviceIndex |-> "new"],
                                        \* run(): new / loop / done
                 tasks |-> [i \in DeviceIndex |-> "none"],
                                        \* run()'s tasks: none / running /
                                        \* cancelled
                 upd_pc |-> [i \in DeviceIndex |-> "top"],
                                        \* update_status: top / query
                 playing |-> pl,        \* a player is Playing on the bus
                 signals |-> 0,         \* shutdown signals delivered
                 shutdown |-> [k \in 1..MaxSignals |-> "none"],
                                        \* _graceful_shutdown tasks:
                                        \* none / pause / wait / done
                 cut_short |-> FALSE]   \* a shutdown ended a player while a
                                        \* pause's wait was still running

\* the loop over bt_devices, one client per step
MainBuild ==
    /\ fleet.pc = "build"
    /\ \E i \in DeviceIndex :
        /\ fleet.listen_port[i] = 0
        /\ \A j \in DeviceIndex : j < i => fleet.listen_port[j] # 0
        /\ fleet' = [fleet EXCEPT
                !.listen_port[i] = ListenPort(fleet.bt_devices[i], i),
                !.pc = IF \A j \in DeviceIndex : j <= i THEN "warn" ELSE @]
    /\ UNCHANGED <<devVars, out, pool, two, vol, conn, rd, mg, af>>

\* the loop over used_ports, then the signal handlers, then gather
MainWarn ==
    /\ fleet.pc = "warn"
    /\ fleet' = [fleet EXCEPT
            !.warned = CollisionWarned(fleet.listen_port)
                         \cup DefaultWarned(fleet.listen_port),
            !.pc = "gather"]
    /\ UNCHANGED <<devVars, out, pool, two, vol, conn, rd, mg, af>>

\* start_sendspin_process of a client: the port given to the player
FleetLaunch(f, i) ==
    [f EXCEPT !.process[i] = "live", !.port_arg[i] = f.listen_port[i]]

\* run() up to its loop: running, the first player, the tasks
FleetRun(i) ==
    /\ fleet.pc = "gather"
    /\ fleet.run_pc[i] = "new"
    /\ fleet' = [FleetLaunch(fleet, i) EXCEPT
            !.running[i] = TRUE, !.tasks[i] = "running", !.run_pc[i] = "loop"]
    /\ UNCHANGED <<devVars, out, pool, two, vol, conn, rd, mg, af>>

\* the player of a client exits by itself
FleetExit(i) ==
    /\ fleet.process[i] = "live"
    /\ fleet' = [fleet EXCEPT !.process[i] = "exited"]
    /\ UNCHANGED <<devVars, out, pool, two, vol, conn, rd, mg, af>>

\* update_status: while self.running, then the awaited link query
FleetUpdQuery(i) ==
    /\ fleet.tasks[i] = "running"
    /\ fleet.upd_pc[i] = "top"
    /\ fleet.running[i]
    /\ fleet' = [fleet EXCEPT !.upd_pc[i] = "query"]
    /\ UNCHANGED <<devVars, out, pool, two, vol, conn, rd, mg, af>>

\* update_status after the query: a player that has exited is launched again
FleetUpdHandle(i) ==
    /\ fleet.tasks[i] = "running"
    /\ fleet.upd_pc[i] = "query"
    /\ fleet' = [(IF fleet.process[i] = "exited"
                  THEN FleetLaunch(fleet, i) ELSE fleet)
                 EXCEPT !.upd_pc[i] = "top"]
    /\ UNCHANGED <<devVars, out, pool, two, vol, conn, rd, mg, af>>

\* signal_handler: loop.create_task(_graceful_shutdown()); the loop runs the
\* first step of every run() before the task of a signal
FleetSignal ==
    /\ fleet.pc = "gather"
    /\ \A i \in DeviceIndex : fleet.run_pc[i] # "new"
    /\ fleet.signals < MaxSignals
    /\ fleet' = [fleet EXCEPT !.signals = @ + 1,
                              !.shutdown[fleet.signals + 1] = "pause"]
    /\ UNCHANGED <<devVars, out, pool, two, vol, conn, rd, mg, af>>

\* for c in clients: c.running = False; c.process.terminate()
StopAll(f, k) ==
    [f EXCEPT
        !.running = [i \in DeviceIndex |-> FALSE],
        !.process = [i \in DeviceIndex |->
                        IF f.process[i] = "live" THEN "exited" ELSE f.process[i]],
        !.shutdown[k] = "done",
        !.cut_short = @ \/ (/\ \E i \in DeviceIndex : f.process[i] = "live"
                            /\ \E j \in 1..MaxSignals :
                                    j # k /\ f.shutdown[j] = "wait")]

\* _graceful_shutdown: the pause pass; with nothing paused there is no await
\* before the clients are stopped
ShutdownPause(k) ==
    /\ fleet.shutdown[k] = "pause"
    /\ fleet' = IF fleet.playing
                THEN [fleet EXCEPT !.playing = FALSE, !.shutdown[k] = "wait"]
                ELSE StopAll(fleet, k)
    /\ UNCHANGED <<devVars, out, pool, two, vol, conn, rd, mg, af>>

\* _graceful_shutdown after asyncio.sleep(0.5)
ShutdownStop(k) ==
    /\ fleet.shutdown[k] = "wait"
    /\ fleet' = StopAll(fleet, k)
    /\ UNCHANGED <<devVars, out, pool, two, vol, conn, rd, mg, af>>

\* run() leaves its loop: the finally block cancels the tasks and ends the
\* player
FleetRunExit(i) ==
    /\ fleet.run_pc[i] = "loop"
    /\ ~fleet.running[i]
    /\ fleet' = [fleet EXCEPT
            !.tasks[i] = "cancelled",
            !.process[i] = IF @ = "live" THEN "exited" ELSE @,
            !.run_pc[i] = "done"]
    /\ UNCHANGED <<devVars, out, pool, two, vol, conn, rd, mg, af>>

\* gather returns when every run() has returned
MainDone ==
    /\ fleet.pc = "gather"
    /\ \A i \in DeviceIndex : fleet.run_pc[i] = "done"
    /\ fleet' = [fleet EXCEPT !.pc = "done"]
    /\ UNCHANGED <<devVars, out, pool, two, vol, conn, rd, mg, af>>

MainNext ==
    \/ MainBuild
    \/ MainWarn
    \/ \E i \in DeviceIndex : FleetRun(i)
    \/ \E i \in DeviceIndex : FleetExit(i)
    \/ \E i \in DeviceIndex : FleetUpdQuery(i)
    \/ \E i \in DeviceIndex : FleetUpdHandle(i)
    \/ FleetSignal
    \/ \E k \in 1..MaxSignals : ShutdownPause(k)
    \/ \E k \in 1..MaxSignals : ShutdownStop(k)
    \/ \E i \in DeviceIndex : FleetRunExit(i)
    \/ MainDone

MainSpecInit == DevRest /\ OutRest /\ PoolRest /\ TwoRest /\ FleetInit /\ VolRest /\ ConnRest /\ RdRest /\ MgRest /\ AfRest

MainSpec == MainSpecInit /\ [][MainNext]_vars

\* C22: any two device instances whose players have been launched listen on
\* distinct ports.
C22_DistinctPorts ==
    \A i, j \in DeviceIndex :
        (i # j /\ fleet.process[i] = "live" /\ fleet.process[j] = "live")
            => fleet.port_arg[i] # fleet.port_arg[j]

\* C27: a shutdown never ends a player while the wait that follows a pause
\* request is still running.
C27_PauseWaitFirst == ~fleet.cut_short

\* C27: once gather has returned no client has a live player or a running
\* task.
C27_AllStopped ==
    fleet.pc = "done" =>
        \A i \in DeviceIndex :
            fleet.process[i] # "live" /\ fleet.tasks[i] # "running"

\* ======================================================================
\* VolSpec: the volume of one Bluetooth device: status['volume'], the volume
\* of its sink, LAST_VOLUMES[mac] and LAST_VOLUME of config.json, over
\* dashboard commands, volume lines of the player, connection events and
\* restarts of the bridge.
\* ======================================================================
Requests == {-5, 0, 40, 150}    \* data['volume'] of a set-volume request
LineVolumes == {7, 150}         \* digits after the last colon of a volume line
SavedVolumes == {NoVolume, 60, 300}     \* LAST_VOLUMES[mac] found at startup
LegacyVolumes == {NoVolume, 30}         \* LAST_VOLUME found at startup

\* max(0, min(100, int(data.get('volume', 100))))
Clamp(v) == IF v < 0 THEN 0 ELSE IF v > 100 THEN 100 ELSE v

\* last_volume is not None and isinstance(last_volume, int)
\* and 0 <= last_volume <= 100
ValidSaved(v) == v # NoVolume /\ 0 <= v /\ v <= 100

\* main(): status['volume'] of a new client, pre-filled from LAST_VOLUMES[mac]
PrefilledVolume(saved) == IF ValidSaved(saved) THEN saved ELSE InitialVolume

\* configure_bluetooth_audio: LAST_VOLUMES[mac], else the legacy LAST_VOLUME
LastVolume(saved, legacy) == IF saved # NoVolume THEN saved ELSE legacy

StatusAfterSet_keep(old, volume) == old

\* set_volume: status['volume'] after pactl returned 0
StatusAfterSet(old, volume) == volume

VolInit ==
    \E saved \in SavedVolumes, legacy \in LegacyVolumes, file \in BOOLEAN :
        vol = [config_exists |-> file,      \* config.json exists
               saved |-> IF file THEN saved ELSE NoVolume,
                                            \* LAST_VOLUMES[mac]
               legacy |-> IF file THEN legacy ELSE NoVolume,
                                            \* LAST_VOLUME
               volume |-> PrefilledVolume(IF file THEN saved ELSE NoVolume),
                                            \* status['volume']
               bluetooth_sink_name |-> FALSE,   \* a sink has been resolved
               sink_volume |-> NoVolume,    \* volume last given to the sink
               volume_restore_done |-> FALSE,
               other_cfg |-> <<>>,          \* LAST_VOLUMES[mac] in the copy
                                            \* of config.json that another
                                            \* device's save has loaded
               snapshot |-> NoVolume,       \* volume of the last status read
               h_set |-> NoVolume,          \* volume of the last dashboard
                                            \* command, until another writer
                                            \* writes status['volume']
               h_expected |-> NoVolume,     \* h_set at the last status read
               h_saved |-> NoVolume,        \* volume a dashboard command
                                            \* saved, until another writer
                                            \* saves one
               h_restarted |-> FALSE,       \* the bridge has restarted since
               h_restored |-> FALSE]        \* and has restored the volume

\* POST /api/volume for this device: pactl returns 0 (ok) or fails
VolDashSet(v, ok) ==
    /\ vol.bluetooth_sink_name
    /\ vol' = IF ok
              THEN [vol EXCEPT
                      !.sink_volume = Clamp(v),
                      !.volume = StatusAfterSet(@, Clamp(v)),
                      !.saved = IF vol.config_exists THEN Clamp(v) ELSE @,
                      !.h_set = Clamp(v),
                      !.h_expected = NoVolume,
                      !.h_saved = IF vol.config_exists THEN Clamp(v) ELSE @,
                      !.h_restarted = FALSE,
                      !.h_restored = FALSE]
              ELSE vol
    /\ UNCHANGED <<devVars, out, pool, two, fleet, conn, rd, mg, af>>

\* GET status: get_client_status_for copies client.status
VolSnapshot ==
    /\ vol' = [vol EXCEPT !.snapshot = vol.volume,
                          !.h_expected = vol.h_set]
    /\ UNCHANGED <<devVars, out, pool, two, fleet, conn, rd, mg, af>>

\* _read_until_eof on a line "Volume: n%" / "... player volume: n%"
VolLine(n, ok) ==
    /\ vol.bluetooth_sink_name
    /\ vol' = [vol EXCEPT
            !.volume = n,
            !.saved = IF vol.volume_restore_done /\ vol.config_exists
                      THEN n ELSE @,
            !.sink_volume = IF ok THEN n ELSE @,
            !.h_set = NoVolume,
            !.h_saved = NoVolume]
    /\ UNCHANGED <<devVars, out, pool, two, fleet, conn, rd, mg, af>>

\* configure_bluetooth_audio on a connection event: the sink is found or not,
\* the restoring pactl call returns 0 or not
VolConfigure(found, ok) ==
    /\ vol' = IF ~found THEN vol
              ELSE LET last == LastVolume(vol.saved, vol.legacy)
                       restored == vol.config_exists /\ ValidSaved(last) /\ ok
                   IN [vol EXCEPT
                        !.bluetooth_sink_name = TRUE,
                        !.sink_volume = IF restored THEN last ELSE FullVolume,
                        !.volume = IF restored THEN last ELSE @,
                        !.volume_restore_done = TRUE,
                        !.h_set = IF restored /\ last # @ THEN NoVolume ELSE @,
                        !.h_restored = vol.h_restarted /\ restored]
    /\ UNCHANGED <<devVars, out, pool, two, fleet, conn, rd, mg, af>>

\* _save_device_volume for another device, on a worker thread: json.load
VolOtherLoad ==
    /\ vol.config_exists
    /\ vol.other_cfg = <<>>
    /\ vol' = [vol EXCEPT !.other_cfg = <<vol.saved>>]
    /\ UNCHANGED <<devVars, out, pool, two, fleet, conn, rd, mg, af>>

\* _save_device_volume for another device: json.dump of the loaded copy with
\* that device's entry changed
VolOtherDump ==
    /\ vol.other_cfg # <<>>
    /\ vol' = [vol EXCEPT !.saved = vol.other_cfg[1], !.other_cfg = <<>>]
    /\ UNCHANGED <<devVars, out, pool, two, fleet, conn, rd, mg, af>>

\* the bridge is restarted with the same config.json: new clients, main()'s
\* pre-fill of status['volume']
VolRestart ==
    /\ vol' = [vol EXCEPT
            !.volume = PrefilledVolume(vol.saved),
            !.bluetooth_sink_name = FALSE,
            !.volume_restore_done = FALSE,
            !.other_cfg = <<>>,
            !.snapshot = NoVolume,
            !.h_set = NoVolume,
            !.h_expected = NoVolume,
            !.h_restarted = TRUE,
            !.h_restored = FALSE]
    /\ UNCHANGED <<devVars, out, pool, two, fleet, conn, rd, mg, af>>

VolNext ==
    \/ \E v \in Requests, ok \in BOOLEAN : VolDashSet(v, ok)
    \/ VolSnapshot
    \/ \E n \in LineVolumes, ok \in BOOLEAN : VolLine(n, ok)
    \/ \E found \in BOOLEAN, ok \in BOOLEAN : VolConfigure(found, ok)
    \/ VolOtherLoad
    \/ VolOtherDump
    \/ VolRestart

VolSpecInit == DevRest /\ OutRest /\ PoolRest /\ TwoRest /\ FleetRest /\ VolInit /\ ConnRest /\ RdRest /\ MgRest /\ AfRest

VolSpec == VolSpecInit /\ [][VolNext]_vars

\* C23: a status read that follows a dashboard set-volume command reports the
\* volume that the command set.
C23_SetIsReported ==
    vol.h_expected # NoVolume => vol.snapshot = vol.h_expected

\* C23: a status has been read after a dashboard command changed the volume
C23_ReadAfterSet ==
    /\ vol.h_expected = 40
    /\ vol.snapshot = 40

\* C24: after a restart the volume that the dashboard saved for the device's
\* MAC is the status volume again, and once the sink is resolved and the
\* restoring call has succeeded it is the sink's volume.
C24_SurvivesRestart ==
    (vol.h_restarted /\ vol.h_saved # NoVolume) =>
        /\ vol.saved = vol.h_saved
        /\ vol.volume = vol.h_saved
        /\ vol.h_restored => vol.sink_volume = vol.h_saved

\* C25: the volume of the status is an integer between 0 and 100.
C25_VolumeInRange ==
    vol.volume \in 0..100

\* ======================================================================
\* ConnSpec: the status fields of one device that are written on connection
\* events: bluetooth_connected and bluetooth_connected_at by update_status
\* and connect_bluetooth_async, bluetooth_sink_name by
\* configure_bluetooth_audio, last_error by start_sendspin_process.
\* ======================================================================
ProbeResults == {"found", "missing", "timeout"}    \* pactl get-sink-volume

ConnInit ==
    conn = [now |-> 1,                  \* the clock
            link |-> FALSE,             \* the speaker is connected
            bluetooth_connected |-> FALSE,      \* status[...]
            bluetooth_connected_at |-> 0,       \* status[...], 0 = None
            last_error |-> "none",      \* status['last_error']
            bluetooth_sink_name |-> 0,  \* 0 = None, k = sink_names[k-1]
            upd_pc |-> "top",           \* update_status: top / query
            upd_bt |-> FALSE,           \* its bt_connected
            cba_pc |-> "wait",          \* connect_bluetooth_async:
                                        \* wait / connect / done
            cfg_pc |-> "idle",          \* configure_bluetooth_audio:
                                        \* idle / probe
            attempt |-> 0,              \* its attempt
            sink_index |-> 0,           \* position in sink_names
            h_connected_at |-> 0,       \* time at which the status last went
                                        \* from disconnected to connected
            h_sink_failed |-> FALSE,    \* the last configure found no sink
            h_probes |-> 0]             \* sink queries of the last configure

ConnTick ==
    /\ conn.now < MaxTime
    /\ conn' = [conn EXCEPT !.now = @ + 1]
    /\ UNCHANGED <<devVars, out, pool, two, fleet, vol, rd, mg, af>>

\* the speaker connects or drops
ConnLink ==
    /\ conn' = [conn EXCEPT !.link = ~@]
    /\ UNCHANGED <<devVars, out, pool, two, fleet, vol, rd, mg, af>>

\* update_status: the awaited is_device_connected
ConnUpdQuery ==
    /\ conn.upd_pc = "top"
    /\ conn' = [conn EXCEPT !.upd_pc = "query", !.upd_bt = conn.link]
    /\ UNCHANGED <<devVars, out, pool, two, fleet, vol, rd, mg, af>>

\* update_status: if bt_connected != status['bluetooth_connected'] both
\* fields are written
ConnUpdHandle ==
    /\ conn.upd_pc = "query"
    /\ conn' = IF conn.upd_bt # conn.bluetooth_connected
               THEN [conn EXCEPT
                        !.bluetooth_connected = conn.upd_bt,
                        !.bluetooth_connected_at = conn.now,
                        !.h_connected_at = IF conn.upd_bt THEN conn.now ELSE @,
                        !.upd_pc = "top"]
               ELSE [conn EXCEPT !.upd_pc = "top"]
    /\ UNCHANGED <<devVars, out, pool, two, fleet, vol, rd, mg, af>>

\* connect_bluetooth_async after its sleep: connect_device on a worker
ConnCbaStart ==
    /\ conn.cba_pc = "wait"
    /\ conn' = [conn EXCEPT !.cba_pc = "connect"]
    /\ UNCHANGED <<devVars, out, pool, two, fleet, vol, rd, mg, af>>

\* connect_bluetooth_async after connect_device:
\* status['bluetooth_connected'] = is_device_connected()
ConnCbaAfter ==
    /\ conn.cba_pc = "connect"
    /\ conn.cfg_pc = "idle"
    /\ conn' = [conn EXCEPT
            !.bluetooth_connected = conn.link,
            !.h_connected_at = IF conn.link /\ ~conn.bluetooth_connected
                               THEN conn.now ELSE @,
            !.cba_pc = "done"]
    /\ UNCHANGED <<devVars, out, pool, two, fleet, vol, rd, mg, af>>

\* connect_device found the speaker connected: configure_bluetooth_audio
\* starts with the first name of the first attempt
ConfStart ==
    /\ conn.link
    /\ conn.cfg_pc = "idle"
    /\ conn' = [conn EXCEPT !.cfg_pc = "probe", !.attempt = 0,
                            !.sink_index = 1, !.h_probes = 0]
    /\ UNCHANGED <<devVars, out, pool, two, fleet, vol, rd, mg, af>>

ConfFailed_again(c) ==
    [c EXCEPT !.attempt = 0, !.sink_index = 1, !.h_probes = @ + 1]

\* the state after configure_bluetooth_audio returned False: a warning or an
\* error is logged and nothing else is written
ConfFailed(c) ==
    [c EXCEPT !.cfg_pc = "idle", !.attempt = 0, !.sink_index = 0,
              !.h_sink_failed = TRUE, !.h_probes = @ + 1]

\* one pactl get-sink-volume of the loop over attempts and sink_names
ConfProbe(res) ==
    /\ conn.cfg_pc = "probe"
    /\ conn' =
        CASE res = "found" ->
                [conn EXCEPT !.bluetooth_sink_name = conn.sink_index,
                             !.cfg_pc = "idle", !.attempt = 0,
                             !.sink_index = 0, !.h_sink_failed = FALSE,
                             !.h_probes = @ + 1]
          [] res = "timeout" -> ConfFailed(conn)
          [] res = "missing" /\ conn.sink_index < NumSinkNames ->
                [conn EXCEPT !.sink_index = @ + 1, !.h_probes = @ + 1]
          [] res = "missing" /\ conn.sink_index = NumSinkNames
                             /\ conn.attempt + 1 < SinkAttempts ->
                [conn EXCEPT !.attempt = @ + 1, !.sink_index = 1,
                             !.h_probes = @ + 1]
          [] OTHER -> ConfFailed(conn)
    /\ UNCHANGED <<devVars, out, pool, two, fleet, vol, rd, mg, af>>

\* start_sendspin_process: except Exception as e: last_error = str(e)
ConnLaunchError ==
    /\ conn.last_error = "none"
    /\ conn' = [conn EXCEPT !.last_error = "launch"]
    /\ UNCHANGED <<devVars, out, pool, two, fleet, vol, rd, mg, af>>

ConnNext ==
    \/ ConnTick
    \/ ConnLink
    \/ ConnUpdQuery
    \/ ConnUpdHandle
    \/ ConnCbaStart
    \/ ConnCbaAfter
    \/ ConfStart
    \/ \E res \in ProbeResults : ConfProbe(res)
    \/ ConnLaunchError

ConnSpecInit == DevRest /\ OutRest /\ PoolRest /\ TwoRest /\ FleetRest /\ VolRest /\ ConnInit /\ RdRest /\ MgRest /\ AfRest

ConnSpec == ConnSpecInit /\ [][ConnNext]_vars

\* C26: after a connection event whose sink resolution failed the sink name is
\* null and last_error reports the failure.
C26_FailureReported ==
    conn.h_sink_failed =>
        /\ conn.bluetooth_sink_name = 0
        /\ conn.last_error # "none"

\* C28: while the status reports bluetooth_connected, bluetooth_connected_at
\* is the time of the latest change of the status to connected.
C28_ConnectedSince ==
    conn.bluetooth_connected =>
        /\ conn.bluetooth_connected_at # 0
        /\ conn.bluetooth_connected_at = conn.h_connected_at

\* ======================================================================
\* LineSpec: _read_until_eof, the consumer of the output of one player.  A
\* line is the set of the patterns that occur in it.
\* ======================================================================
Patterns ==
    {"Stream STARTED", "Stream started with codec", "Stream STOPPED",
     "MPRIS interface stopped", "Audio format:", "re-anchor",
     "Sync error n ms", "Sync error n.n.n ms", "Server connected"}

\* the lines the player is taken to print; "undecodable" is a line whose
\* bytes the text pipe (text=True, strict errors) cannot decode
Lines ==
    {{"Stream STARTED"},
     {"Stream started with codec"},
     {"Stream STOPPED"},
     {"MPRIS interface stopped"},
     {"Audio format:"},
     {"re-anchor", "Sync error n ms"},
     {"re-anchor"},
     {"re-anchor", "Sync error n.n.n ms"},
     {"re-anchor", "Stream STARTED"},
     {"Server connected"},
     {},
     {"undecodable"}}

InitialFields ==
    [playing |-> FALSE,
     audio_format |-> "none",           \* none / codec / full
     reanchor_count |-> 0,
     reanchoring |-> FALSE,
     last_sync_error_ms |-> "none",     \* none / value
     server_connected |-> FALSE]

\* the playing branch: 'Stream STARTED' / 'Stream started with codec', elif
\* 'Stream STOPPED' / 'MPRIS interface stopped'
AfterPlaying(s, l) ==
    IF "Stream STARTED" \in l \/ "Stream started with codec" \in l
    THEN [s EXCEPT !.playing = TRUE,
                   !.audio_format =
                        IF "Stream started with codec" \in l THEN "codec" ELSE @]
    ELSE IF "Stream STOPPED" \in l \/ "MPRIS interface stopped" \in l
    THEN [s EXCEPT !.playing = FALSE]
    ELSE s

\* 'Audio format:'
AfterFormat(s, l) ==
    IF "Audio format:" \in l THEN [s EXCEPT !.audio_format = "full"] ELSE s

\* the sync branch: float() of a number such as 1.2.3 raises before the
\* counter is touched and the exception is passed over
AfterSync(s, l) ==
    IF "re-anchor" \in l
    THEN IF "Sync error n.n.n ms" \in l THEN s
         ELSE [s EXCEPT
                !.last_sync_error_ms =
                    IF "Sync error n ms" \in l THEN "value" ELSE @,
                !.reanchor_count = @ + 1,
                !.reanchoring = TRUE]
    ELSE IF "Stream STARTED" \in l THEN [s EXCEPT !.reanchoring = FALSE]
    ELSE s

\* 'Server connected' / 'Handshake with server complete'
AfterServer(s, l) ==
    IF "Server connected" \in l THEN [s EXCEPT !.server_connected = TRUE]
    ELSE s

\* the body of the loop for one decoded line
ParseLine(s, l) == AfterServer(AfterSync(AfterFormat(AfterPlaying(s, l), l), l), l)

RdInit ==
    rd = [running |-> TRUE,             \* self.running
          reader |-> "reading",         \* _read_until_eof: reading / ended /
                                        \* aborted (left by an exception)
          status |-> InitialFields,     \* self.status
          raw_line |-> {},              \* the line read last
          parsed |-> FALSE,             \* the loop body ran for it
          h_before |-> InitialFields]   \* self.status before that line

\* readline returns a line; the loop body runs unless self.running is false
RdLine(l) ==
    /\ rd.reader = "reading"
    /\ "re-anchor" \in l => rd.status.reanchor_count < MaxReanchors
    /\ rd' = IF "undecodable" \in l
             THEN [rd EXCEPT !.reader = "aborted", !.raw_line = l,
                             !.parsed = FALSE, !.h_before = rd.status]
             ELSE IF ~rd.running
             THEN [rd EXCEPT !.reader = "ended", !.raw_line = l,
                             !.parsed = FALSE, !.h_before = rd.status]
             ELSE [rd EXCEPT !.status = ParseLine(@, l), !.raw_line = l,
                             !.parsed = TRUE, !.h_before = rd.status]
    /\ UNCHANGED <<devVars, out, pool, two, fleet, vol, conn, mg, af>>

\* readline returns '': end of stream
RdEof ==
    /\ rd.reader = "reading"
    /\ rd' = [rd EXCEPT !.reader = "ended"]
    /\ UNCHANGED <<devVars, out, pool, two, fleet, vol, conn, mg, af>>

\* stop() / _graceful_shutdown: self.running = False
RdStop ==
    /\ rd.running
    /\ rd' = [rd EXCEPT !.running = FALSE]
    /\ UNCHANGED <<devVars, out, pool, two, fleet, vol, conn, mg, af>>

\* start_sendspin_process: a new player and a new consumer
RdRelaunch ==
    /\ rd.reader # "reading"
    /\ rd.running
    /\ rd' = [rd EXCEPT !.reader = "reading",
                        !.status.playing = FALSE,
                        !.status.server_connected = TRUE]
    /\ UNCHANGED <<devVars, out, pool, two, fleet, vol, conn, mg, af>>

LineNext ==
    \/ \E l \in Lines : RdLine(l)
    \/ RdEof
    \/ RdStop
    \/ RdRelaunch

LineSpecInit == DevRest /\ OutRest /\ PoolRest /\ TwoRest /\ FleetRest /\ VolRest /\ ConnRest /\ RdInit /\ MgRest /\ AfRest

LineSpec == LineSpecInit /\ [][LineNext]_vars

\* a line that sets playing to true and is not a re-anchor line
PlaybackStart(l) ==
    /\ "re-anchor" \notin l
    /\ "Stream STARTED" \in l \/ "Stream started with codec" \in l

\* C29: a re-anchor line adds exactly one to the counter and sets the
\* re-anchoring flag, the counter never decreases, and a line that signals
\* playback start clears the flag.
C29_ReanchorCounted ==
    /\ rd.status.reanchor_count >= rd.h_before.reanchor_count
    /\ (rd.parsed /\ "re-anchor" \in rd.raw_line) =>
            /\ rd.status.reanchor_count = rd.h_before.reanchor_count + 1
            /\ rd.status.reanchoring
    /\ (rd.parsed /\ PlaybackStart(rd.raw_line)) => ~rd.status.reanchoring

\* C30: a line without any pattern leaves the status as it was, and no line
\* makes the consumer leave its loop other than at end of stream or shutdown.
C30_LinesNeverAbort ==
    /\ (rd.parsed /\ rd.raw_line = {}) => rd.status = rd.h_before
    /\ rd.reader # "aborted"

\* C31: after the connect command a caller of connect_device checks the link
\* at most five times: the first check that reports connected ends the loop
\* with success, and the loop is left with failure only by the fifth check in
\* a row that reports not connected.
C31_AtMostFiveChecks ==
    [][\A c \in Callers :
         (cd[c].pc = "check" /\ cd'[c] # cd[c]) =>
            /\ cd[c].i < ConnectChecks
            /\ connected' <=> cd'[c].pc = "cfg"
            /\ cd'[c].pc = "ret" => (cd[c].i + 1 = ConnectChecks /\ ~cd'[c].ret)
            /\ cd'[c].pc = "check" =>
                    (cd'[c].i = cd[c].i + 1 /\ cd'[c].i < ConnectChecks)
            /\ cd'[c].pc \in {"cfg", "ret", "check"}]_vars

\* C31: five checks in a row reported not connected and connect_device is
\* about to return failure
C31_GaveUp ==
    \E c \in Callers :
        /\ cd[c].pc = "ret"
        /\ ~cd[c].ret
        /\ "connect" \in cd[c].cmds

\* a step of the loop over attempts and sink_names
ProbeStep ==
    /\ conn.cfg_pc = "probe"
    /\ conn'.h_probes # conn.h_probes

\* C32: the sink names are queried in the order of sink_names, the first name
\* whose query succeeds becomes the sink, and after at most three passes over
\* the list (twelve queries) the resolution ends with failure.
C32_BoundedOrderedProbes ==
    [][ProbeStep =>
        /\ conn'.h_probes = conn.h_probes + 1
        /\ conn.h_probes = conn.attempt * NumSinkNames + conn.sink_index - 1
        /\ conn'.h_probes <= SinkAttempts * NumSinkNames
        /\ \/ /\ conn'.cfg_pc = "probe"
              /\ conn'.bluetooth_sink_name = conn.bluetooth_sink_name
              /\ \/ /\ conn'.sink_index = conn.sink_index + 1
                    /\ conn'.sink_index <= NumSinkNames
                    /\ conn'.attempt = conn.attempt
                 \/ /\ conn.sink_index = NumSinkNames
                    /\ conn'.sink_index = 1
                    /\ conn'.attempt = conn.attempt + 1
                    /\ conn'.attempt < SinkAttempts
           \/ /\ conn'.cfg_pc = "idle"
              /\ ~conn'.h_sink_failed
              /\ conn'.bluetooth_sink_name = conn.sink_index
           \/ /\ conn'.cfg_pc = "idle"
              /\ conn'.h_sink_failed
              /\ conn'.bluetooth_sink_name = conn.bluetooth_sink_name]_vars

\* C32: three passes over the four names found no sink and the resolution
\* has ended with failure
C32_GaveUpAfterTwelve ==
    /\ conn.cfg_pc = "idle"
    /\ conn.h_sink_failed
    /\ conn.h_probes = SinkAttempts * NumSinkNames

\* ---- re-enabling a released device ----------------------------------------

\* every coroutine of the event loop and every worker or dashboard thread
\* that can take its next step eventually takes it: asyncio schedules each
\* ready task and the operating system each thread
LiveSpec ==
    /\ Spec
    /\ WF_vars(RunStart)
    /\ WF_vars(UpdQuery) /\ WF_vars(UpdHandle)
    /\ WF_vars(MonTop) /\ WF_vars(MonQuery) /\ WF_vars(MonHandle)
    /\ WF_vars(MonAfterConnect)
    /\ WF_vars(CbaWake) /\ WF_vars(CbaAfter)
    /\ \A c \in Callers :
        /\ WF_vars(CDQuery0(c)) /\ WF_vars(CDPairCheck(c)) /\ WF_vars(CDPair(c))
        /\ WF_vars(CDPower(c)) /\ WF_vars(CDConnect(c)) /\ WF_vars(CDCheck(c))
        /\ WF_vars(CDConfigure(c))
    /\ WF_vars(DashReconnectDisconnect) /\ WF_vars(DashPairDevice)
    /\ WF_vars(DashAfterConnect)
    /\ WF_vars(SetManagement) /\ WF_vars(ReleaseDisconnect)

\* the reclaim command is about to be applied to a device that never had a
\* player process, while its speaker is connected
ReclaimPending ==
    /\ dash_pc = "mg_on"
    /\ run_pc = "running"
    /\ process = "none"
    /\ link

\* C33: once a device without a player process is re-enabled while its
\* speaker is connected, the player process is eventually running (unless
\* the speaker drops or the device is released again)
C33_ReenabledRuns ==
    ReclaimPending ~> (process = "alive" \/ ~link \/ dash_pc = "mg_off")

\* ---- playing and the player process --------------------------------------

\* C34: whenever the status reports playing = true, the player process is
\* alive
C34_PlayingHasProcess == out.playing => out.process \in out.live

\* ---- connected and reconnecting -------------------------------------------

\* C35: no status snapshot (a copy of the status taken at any moment,
\* web_interface.py line 125) reports bluetooth_connected = true together
\* with reconnecting = true
C35_NotConnectedAndReconnecting ==
    ~(status.bluetooth_connected /\ status.reconnecting)

\* ---- concurrent saves to config.json ---------------------------------------

\* C36: a value persisted to config.json is not lost to a concurrent save of
\* another value: the volume the dashboard persisted for this device stays
\* in the file while no later save of this device's volume replaces it
C36_NoLostUpdate ==
    vol.h_saved # NoVolume => vol.saved = vol.h_saved

\* ---- dashboard commands for an unknown player ------------------------------

\* the thread of a forced reconnect takes a step
ForceStep == two.force.pc # "idle" /\ two'.force # two.force

\* C37: a forced reconnect whose player_name matches no configured device
\* changes the state of no device
C37_UnknownNameNoEffect ==
    [][(ForceStep /\ \A d \in Clients : PlayerName(d) # two.force.name) =>
          /\ two'.links = two.links
          /\ two'.connected = two.connected
          /\ two'.processes = two.processes
          /\ two'.statuses = two.statuses]_vars

\* ======================================================================
\* MgmtSpec: release/reclaim commands for one device.  api_bt_management
\* starts one thread per command; the thread's three assignments and its
\* release work are steps that interleave with those of the other threads.
\* ======================================================================

\* the positions of a thread running set_bt_management_enabled: before the
\* assignment to the client flag, to the status field, to the manager flag,
\* before the release work, finished
NextPc(pc) ==
    CASE pc = "flag" -> "status"
      [] pc = "status" -> "manager"
      [] pc = "manager" -> "rest"
      [] pc = "rest" -> "done"

\* main() lines 1150-1155: the device is managed unless its configuration
\* says enabled = false; run() has started the player of a managed device
\* (lines 1000-1001)
MgInit ==
    \E enabled \in BOOLEAN, up \in BOOLEAN :
        mg = [bt_management_enabled |-> enabled,   \* the client's flag
              status |-> enabled,   \* status['bt_management_enabled']
              management_enabled |-> enabled,      \* the manager's flag
              persisted |-> enabled,    \* 'enabled' of the device in
                                        \* config.json
              process |-> IF enabled THEN "alive" ELSE "none",
              link |-> up,              \* the speaker is connected
              threads |-> <<>>,         \* one [enabled, pc] per command, in
                                        \* the order the commands were accepted
              h_last |-> enabled,       \* value of the last command accepted
              h_named |-> TRUE]         \* every command named the device

\* api_bt_management, lines 2027-2049: look the client up (falling back to
\* the first client), start the thread, persist the flag under the requested
\* player_name, answer success
MgCommand(enabled, named) ==
    /\ Len(mg.threads) < MaxCommands
    /\ mg' = [mg EXCEPT
                !.threads = Append(@, [enabled |-> enabled, pc |-> "flag"]),
                !.persisted = IF named THEN enabled ELSE @,
                !.h_last = enabled,
                !.h_named = @ /\ named]
    /\ UNCHANGED <<devVars, out, pool, two, fleet, vol, conn, rd, af>>

\* the release work of set_bt_management_enabled, lines 1068-1083: terminate
\* a running player and disconnect the speaker; nothing on reclaim
AfterRelease(m, enabled) ==
    IF enabled THEN m
    ELSE [m EXCEPT !.process = Terminate(@), !.link = FALSE]

\* one step of the thread of command k: set_bt_management_enabled, lines
\* 1063-1085
MgStep(k) ==
    /\ k \in 1..Len(mg.threads)
    /\ mg.threads[k].pc # "done"
    /\ LET th == mg.threads[k]
           moved == [mg EXCEPT !.threads[k].pc = NextPc(th.pc)]
       IN mg' = CASE th.pc = "flag" ->
                       [moved EXCEPT !.bt_management_enabled = th.enabled]
                  [] th.pc = "status" ->
                       [moved EXCEPT !.status = th.enabled]
                  [] th.pc = "manager" ->
                       [moved EXCEPT !.management_enabled = th.enabled]
                  [] th.pc = "rest" -> AfterRelease(moved, th.enabled)
    /\ UNCHANGED <<devVars, out, pool, two, fleet, vol, conn, rd, af>>

MgmtNext ==
    \/ \E enabled \in BOOLEAN, named \in BOOLEAN : MgCommand(enabled, named)
    \/ \E k \in 1..MaxCommands : MgStep(k)

MgmtSpecInit == DevRest /\ OutRest /\ PoolRest /\ TwoRest /\ FleetRest /\ VolRest /\ ConnRest /\ RdRest /\ MgInit /\ AfRest

MgmtSpec == MgmtSpecInit /\ [][MgmtNext]_vars

\* every command sent so far has finished executing
AllFinished ==
    /\ mg.threads # <<>>
    /\ \A k \in 1..Len(mg.threads) : mg.threads[k].pc = "done"

\* C38: once every release/reclaim command sent to a device (each naming
\* it) has finished executing, the client flag, the manager flag and the
\* status field hold the value of the last command accepted, and so does
\* the persisted flag
C38_LastCommandWins ==
    (AllFinished /\ mg.h_named) =>
        /\ mg.bt_management_enabled = mg.h_last
        /\ mg.management_enabled = mg.h_last
        /\ mg.status = mg.h_last
        /\ mg.persisted = mg.h_last

\* ---- one connect or pair operation per device ------------------------------

\* caller c is inside connect_device (lines 479-515)
InConnect(c) == cd[c].pc \notin {"idle", "ret"}

\* the dashboard's re-pair thread is inside pair_device (web_interface.py
\* line 2016)
InPair == dash_pc = "pr_pair"

\* C39: at most one connect or pair operation is in progress for the device
\* among the monitor's reconnect, the start-up connect and the dashboard's
\* forced reconnect or re-pair
C39_OneOperation ==
    Cardinality({c \in Callers : InConnect(c)}) + (IF InPair THEN 1 ELSE 0) <= 1

\* ======================================================================
\* FormatSpec: two devices, their player names and the audio_format each
\* reports.  _last_full_audio_format (line 140) is one dictionary of the
\* module, shared by the readers of all devices and keyed by player_name.
\* ======================================================================

\* SENDSPIN_NAME or "Sendspin-<hostname>", lines 1121-1124
DefaultPlayerName == "Sendspin-host"

\* the player_name entry of a device in the configuration; "" = absent
ConfiguredNames == {"", "Kitchen", "Hall"}

\* line 1131: device.get('player_name') or _default_player_name (the bridge
\* suffix of line 1133 is the same for every device)
NameOf(entry) == IF entry = "" THEN DefaultPlayerName ELSE entry

Codecs == {"flac", "opus"}

\* the rest of a full format string after the codec
Details == {"48000Hz/24-bit/2ch", "44100Hz/16-bit/2ch"}

\* no format: '' in the cache lookup, None in the status
NoFormat == [codec |-> "", detail |-> "", h_from |-> 0]

\* lines 909-913: the cached full format if there is one and it starts with
\* the codec, else the codec alone
FormatForCodec(cached, codec, d) ==
    IF cached # NoFormat /\ cached.codec = codec
    THEN cached
    ELSE [codec |-> codec, detail |-> "", h_from |-> d]

\* main() lines 1126-1141 and __init__ line 592: one client per device, named
\* from its configuration entry; the cache is empty
FmtInit ==
    \E entries \in [Clients -> ConfiguredNames] :
        af = [player_name |-> [d \in Clients |-> NameOf(entries[d])],
              cache |-> [n \in {NameOf(e) : e \in ConfiguredNames} |-> NoFormat],
                                    \* _last_full_audio_format
              audio_format |-> [d \in Clients |-> NoFormat]]
                                    \* status['audio_format'] of each device;
                                    \* h_from: the device whose player
                                    \* printed the string

\* _read_until_eof of device d on "Audio format: <codec> <detail>", lines
\* 921-928
FmtAudioLine(d, codec, detail) ==
    /\ LET fmt == [codec |-> codec, detail |-> detail, h_from |-> d]
       IN af' = [af EXCEPT !.cache[af.player_name[d]] = fmt,
                           !.audio_format[d] = fmt]
    /\ UNCHANGED <<devVars, out, pool, two, fleet, vol, conn, rd, mg>>

\* _read_until_eof of device d on "Stream started with codec <codec>", lines
\* 903-914
FmtCodecLine(d, codec) ==
    /\ af' = [af EXCEPT !.audio_format[d] =
                 FormatForCodec(af.cache[af.player_name[d]], codec, d)]
    /\ UNCHANGED <<devVars, out, pool, two, fleet, vol, conn, rd, mg>>

FormatNext ==
    \/ \E d \in Clients, codec \in Codecs, detail \in Details :
           FmtAudioLine(d, codec, detail)
    \/ \E d \in Clients, codec \in Codecs : FmtCodecLine(d, codec)

FormatSpecInit == DevRest /\ OutRest /\ PoolRest /\ TwoRest /\ FleetRest /\ VolRest /\ ConnRest /\ RdRest /\ MgRest /\ FmtInit

FormatSpec == FormatSpecInit /\ [][FormatNext]_vars

\* C40: the audio_format reported for a device comes from that device's own
\* process output, whatever the names of the devices
C40_OwnFormatOnly ==
    \A d \in Clients :
        af.audio_format[d] # NoFormat => af.audio_format[d].h_from = d
====
